---- MODULE Spec2Model ----
(***************************************************************************)
(* A model of the news-digest pipeline of scripts/good_news.py:            *)
(* GoodNewsService.generate and the collaborators it drives                *)
(* (GoodNewsFetcher: search session, _parse_ddg_results, the enrichment    *)
(* of _enrich_articles_with_content, _compose_feed; the summarizer;        *)
(* build_report; the one-file-per-day write).                              *)
(* After it come the other programs of the repository: the comfort         *)
(* service and POST /comfort, POST /tts, and the devotional script of      *)
(* scripts/generate_devotional.py.                                         *)
(*                                                                         *)
(* Text is modelled line by line: a line is a record [k, v] whose kind k   *)
(* is the label the code's regular expressions recognise on it and whose   *)
(* v is the text after the label.  Python's None is the string None.       *)
(***************************************************************************)
EXTENDS Integers, Sequences, FiniteSets, TLC

VARIABLES
    config,     \* GoodNewsConfig of the service (fixed after construction)
    pc,         \* pc[p]: where invocation p of generate stands
    frame,      \* frame[p]: the local variables of invocation p
    hist,       \* hist[p]: the collaborator calls invocation p has issued
    result,     \* result[p]: what generate returned or raised
    dirExists,  \* whether output_dir exists on disk
    files,      \* files[d]: the file output_dir/d.md
    initDisk,   \* the output directory as it was before any invocation
    before,     \* before[p]: the invocations that had ended when p began
    environ,    \* os.environ: the entry OPENAI_API_KEY
    unit        \* a function of the module called on its own: its arguments,
                \* what it returned or raised, the calls it made

vars == <<config, pc, frame, hist, result, dirExists, files, initDisk, before,
          environ, unit>>

(***************************************************************************)
(* Bounds                                                                  *)
(***************************************************************************)
\* lines of the search collaborator's report
MaxLines == 2
\* articles handed to _enrich_articles_with_content when it is run alone
MaxArticles == 3
\* largest fetch_article_limit tried when enrichment is run alone
MaxLimit == 2
\* lines of a feed handed to parse_articles when it is run alone
MaxFeed == 3
\* passages of a reply to the comfort service, of any kind of element
MaxListed == 1
\* passages of the longest reply to the comfort service
MaxReply == 11
\* scriptures of a theme of the devotional script kept in the model
MaxScriptures == 2
\* runs of the devotional script, one after the other
MaxRuns == 2

Procs == {"p1", "p2"}
Dates == {"2024-05-01", "2024-05-02"}
Summaries == {"sumA", "sumB"}

None == "None"
Truthy(s) == s # None /\ s # ""

(***************************************************************************)
(* Article (frozen dataclass) and the values built from it                 *)
(***************************************************************************)
Article(title, source, author, published_at, description, url, content) ==
    [title |-> title, source |-> source, author |-> author,
     published_at |-> published_at, description |-> description,
     url |-> url, content |-> content]

\* dataclasses.replace(article, content=c): a new value, the input untouched
replace_content(article, c) == [article EXCEPT !.content = c]

UNTITLED == "untitled"

Line(k, v) == [k |-> k, v |-> v]
Blank == Line("blank", "")

RECURSIVE Strip(_)
\* str.strip() on a text given as lines: blank lines at both ends go
Strip(lines) ==
    IF lines = <<>> THEN <<>>
    ELSE IF Head(lines).k = "blank" THEN Strip(Tail(lines))
    ELSE IF lines[Len(lines)].k = "blank"
         THEN Strip(SubSeq(lines, 1, Len(lines) - 1))
    ELSE lines

RECURSIVE Concat(_)
\* "\n".join(parts) of texts given as lines
Concat(parts) ==
    IF parts = <<>> THEN <<>> ELSE Head(parts) \o Concat(Tail(parts))

\* str.strip() of a one-line text
StripText(t) ==
    CASE t = " " -> ""
      [] t = "B " -> "B"
      [] t = " sumA " -> "sumA"
      [] t = "sumB\n" -> "sumB"
      [] OTHER -> t

(***************************************************************************)
(* GoodNewsFetcher._parse_ddg_results                                      *)
(***************************************************************************)
DdgArticle(current_title, current_url, current_summary) ==
    Article(IF Truthy(current_title) THEN current_title ELSE UNTITLED,
            None, None, None, current_summary, current_url, None)

RECURSIVE ParseDdgLoop(_, _, _, _, _, _)
ParseDdgLoop(lines, i, articles, ct, cu, cs) ==
    LET flushed == IF Truthy(ct) \/ Truthy(cu) \/ Truthy(cs)
                   THEN Append(articles, DdgArticle(ct, cu, cs))
                   ELSE articles
    IN  IF i > Len(lines) THEN flushed
        ELSE LET ln == lines[i] IN
             CASE ln.k = "blank"   -> ParseDdgLoop(lines, i + 1, articles, ct, cu, cs)
               [] ln.k = "num"     -> ParseDdgLoop(lines, i + 1, flushed, ln.v, None, None)
               [] ln.k = "url"     -> ParseDdgLoop(lines, i + 1, articles, ct, ln.v, cs)
               [] ln.k = "summary" -> ParseDdgLoop(lines, i + 1, articles, ct, cu, ln.v)
               [] OTHER            -> ParseDdgLoop(lines, i + 1, articles, ct, cu, cs)

parse_ddg_results(search_report) ==
    ParseDdgLoop(search_report, 1, <<>>, None, None, None)

(***************************************************************************)
(* GoodNewsFetcher._compose_feed: the report, then one section per        *)
(* article, sections joined by an empty line                               *)
(***************************************************************************)
FeedSection(idx, article) ==
    <<Line("article", ToString(idx))>>
    \o (IF Truthy(article.title) THEN <<Line("title", article.title)>> ELSE <<>>)
    \o (IF Truthy(article.url) THEN <<Line("url", article.url)>> ELSE <<>>)
    \o (IF Truthy(article.description)
        THEN <<Line("summary", article.description)>> ELSE <<>>)
    \o (IF Truthy(article.content)
        THEN <<Line("fulltext", ""), Line("other", article.content)>> ELSE <<>>)

compose_feed(search_report, articles) ==
    IF articles = <<>> THEN search_report
    ELSE search_report
         \o Concat([i \in 1..Len(articles) |->
                        <<Blank>> \o FeedSection(i, articles[i])])

(***************************************************************************)
(* parse_articles.  A text is the sequence of its lines; a line [k, v] has *)
(* the kind k of what it begins with and the rest v of the line.  The      *)
(* "Article N:" markers (kind articleC) stand on lines of their own.       *)
(***************************************************************************)
Labels ==
    {"title", "url", "source", "author", "published", "summary",
     "description", "fulltext"}

LabelText(k) ==
    CASE k = "title" -> "Title:"
      [] k = "url" -> "URL:"
      [] k = "source" -> "Source:"
      [] k = "author" -> "Author:"
      [] k = "published" -> "Published:"
      [] k = "summary" -> "Summary:"
      [] k = "description" -> "Description:"
      [] k = "fulltext" -> "Full Text Excerpt:"
      [] OTHER -> ""

\* the text of a line, stripped
LineText(line) ==
    IF line.k = "blank" THEN ""
    ELSE IF line.k \in Labels
         THEN IF StripText(line.v) = "" THEN LabelText(line.k)
              ELSE LabelText(line.k) \o " " \o StripText(line.v)
    ELSE IF line.k = "article" THEN "Article " \o line.v
    ELSE StripText(line.v)

RECURSIVE SplitBlocks(_, _, _)
\* re.split(r"Article \d+:\s*", raw_feed): the texts before, between and
\* after the markers; the text before a marker ends with the line break
\* that precedes the marker
SplitBlocks(lines, i, current) ==
    IF i > Len(lines) THEN <<current>>
    ELSE IF lines[i].k = "articleC"
         THEN <<Append(current, Blank)>> \o SplitBlocks(lines, i + 1, <<>>)
         ELSE SplitBlocks(lines, i + 1, Append(current, lines[i]))

IsBlankText(lines) == \A i \in 1..Len(lines) : lines[i].k = "blank"

\* re.search(r"^Label:\s*(.+)$", block, re.MULTILINE) at the label line i,
\* stripped.  \s* runs over line breaks: when nothing but whitespace follows
\* the label on its line, the group is the next line that is not blank, its
\* own label included; when no such line follows, the group is whitespace
\* if there is any before a line end, and there is no match otherwise.
LabelValueAt(block, i) ==
    IF StripText(block[i].v) # "" THEN StripText(block[i].v)
    ELSE LET later == {j \in (i + 1)..Len(block) : block[j].k # "blank"}
         IN  IF later # {}
             THEN LineText(block[CHOOSE j \in later : \A m \in later : j <= m])
             ELSE IF \E j \in i..Len(block) : block[j].v # ""
             THEN ""
             ELSE None

\* the empty text given for a label that is not there
FirstLabelOrEmpty(block, label) ==
    LET hits == {i \in 1..Len(block) :
                    block[i].k = label /\ LabelValueAt(block, i) # None}
    IN  IF hits = {} THEN ""
        ELSE LabelValueAt(block, CHOOSE i \in hits : \A j \in hits : i <= j)

\* the first line of the label that matches
FirstLabel(block, label) ==
    LET hits == {i \in 1..Len(block) :
                    block[i].k = label /\ LabelValueAt(block, i) # None}
    IN  IF hits = {} THEN None
        ELSE LabelValueAt(block, CHOOSE i \in hits : \A j \in hits : i <= j)

RECURSIVE JoinLines(_)
\* "\n".join of one-line texts
JoinLines(texts) ==
    IF texts = <<>> THEN ""
    ELSE IF Len(texts) = 1 THEN texts[1]
    ELSE texts[1] \o "\n" \o JoinLines(Tail(texts))

\* the text of a line as it stands
RawLine(line) ==
    IF line.k \in Labels
    THEN IF line.v = "" THEN LabelText(line.k) ELSE LabelText(line.k) \o " " \o line.v
    ELSE IF line.k = "article" THEN "Article " \o line.v
    ELSE line.v

RECURSIVE StripEmpty(_)
\* str.strip() of a text given as its lines: the blank lines at both ends
\* dropped, the whitespace at the end of the last line dropped (no line of
\* the model begins with whitespace unless it is blank)
StripEmpty(lines) ==
    IF lines = <<>> THEN <<>>
    ELSE IF LineText(Head(lines)) = "" THEN StripEmpty(Tail(lines))
    ELSE IF LineText(lines[Len(lines)]) = ""
         THEN StripEmpty(SubSeq(lines, 1, Len(lines) - 1))
    ELSE [j \in 1..Len(lines) |->
             IF j = Len(lines) THEN LineText(lines[j]) ELSE RawLine(lines[j])]

\* re.search(r"^Full Text Excerpt:\s*(.+)$", block, re.MULTILINE | re.DOTALL),
\* stripped: all that follows the first such label up to the end of the block
FullText(block) ==
    LET hits == {i \in 1..Len(block) : block[i].k = "fulltext"}
    IN  IF hits = {} THEN None
        ELSE LET i == CHOOSE h \in hits : \A j \in hits : h <= j
                 texts == StripEmpty(<<Line("other", block[i].v)>>
                                     \o SubSeq(block, i + 1, Len(block)))
             IN  IF texts # <<>> THEN JoinLines(texts)
                 ELSE IF block[i].v # "" \/ i < Len(block) THEN ""
                 ELSE None

\* lines 108-131: the Article of a block
BlockArticle(block) ==
    LET title_match == FirstLabel(block, "title")
        url_match == FirstLabel(block, "url")
        summary_match == IF FirstLabel(block, "summary") # None
                         THEN FirstLabel(block, "summary")
                         ELSE FirstLabel(block, "description")
    IN  Article(IF title_match # None THEN title_match ELSE UNTITLED,
                FirstLabel(block, "source"), FirstLabel(block, "author"),
                FirstLabel(block, "published"), summary_match, url_match,
                FullText(block))

\* every block turned into an Article
RECURSIVE ParseBlocksKeepAll(_)
ParseBlocksKeepAll(blocks) ==
    IF blocks = <<>> THEN <<>>
    ELSE <<BlockArticle(Head(blocks))>> \o ParseBlocksKeepAll(Tail(blocks))

\* lines 104-131: blank blocks and blocks without title and URL are passed over
RECURSIVE ParseBlocks(_)
ParseBlocks(blocks) ==
    IF blocks = <<>> THEN <<>>
    ELSE LET block == Head(blocks) IN
         IF IsBlankText(block)
            \/ (FirstLabel(block, "title") = None /\ FirstLabel(block, "url") = None)
         THEN ParseBlocks(Tail(blocks))
         ELSE <<BlockArticle(block)>> \o ParseBlocks(Tail(blocks))

parse_articles(raw_feed) ==
    IF IsBlankText(raw_feed) THEN <<>>
    ELSE ParseBlocks(SplitBlocks(raw_feed, 1, <<>>))

(***************************************************************************)
(* build_report: the document as a sequence of lines                       *)
(***************************************************************************)
ReportLine(k, n, v, url, src, pub) ==
    [k |-> k, n |-> n, v |-> v, url |-> url, src |-> src, pub |-> pub]

PlainLine(k, v) == ReportLine(k, 0, v, "", "", "")

\* every entry given the number 1
SourceEntryNumberedOne(index, article) ==
    ReportLine("entry", 1, article.title,
               IF Truthy(article.url) THEN article.url ELSE "",
               IF Truthy(article.source) THEN article.source ELSE "",
               IF Truthy(article.published_at) THEN article.published_at ELSE "")

SourceEntry(index, article) ==
    ReportLine("entry", index, article.title,
               IF Truthy(article.url) THEN article.url ELSE "",
               IF Truthy(article.source) THEN article.source ELSE "",
               IF Truthy(article.published_at) THEN article.published_at ELSE "")

\* the notes put before the sources section
build_reportNotesFirst(summary_body, articles, extra_notes, generated_at) ==
    <<PlainLine("title", generated_at), PlainLine("empty", ""),
      PlainLine("summary", StripText(summary_body)), PlainLine("empty", "")>>
    \o [i \in 1..Len(extra_notes) |-> PlainLine("note", extra_notes[i])]
    \o <<PlainLine("sources", "")>>
    \o (IF articles # <<>>
        THEN [i \in 1..Len(articles) |-> SourceEntry(i, articles[i])]
        ELSE <<PlainLine("placeholder", "")>>)
    \o <<PlainLine("empty", ""), PlainLine("generated", generated_at),
         PlainLine("empty", "")>>

build_report(summary_body, articles, extra_notes, generated_at) ==
    <<PlainLine("title", generated_at), PlainLine("empty", ""),
      PlainLine("summary", StripText(summary_body)), PlainLine("empty", ""),
      PlainLine("sources", "")>>
    \o (IF articles # <<>>
        THEN [i \in 1..Len(articles) |-> SourceEntry(i, articles[i])]
        ELSE <<PlainLine("placeholder", "")>>)
    \o (IF extra_notes # <<>>
        THEN <<PlainLine("empty", "")>>
             \o [i \in 1..Len(extra_notes) |-> PlainLine("note", extra_notes[i])]
        ELSE <<>>)
    \o <<PlainLine("empty", ""), PlainLine("generated", generated_at),
         PlainLine("empty", "")>>

(***************************************************************************)
(* _enrich_articles_with_content: the pure parts                           *)
(***************************************************************************)
RECURSIVE DedupUrlsKeepAll(_, _)
\* the URLs with the "not in urls" test left out
DedupUrlsKeepAll(articles, urls) ==
    IF articles = <<>> THEN urls
    ELSE DedupUrlsKeepAll(Tail(articles),
                          IF Truthy(Head(articles).url)
                          THEN Append(urls, Head(articles).url) ELSE urls)

RECURSIVE DedupUrls(_, _)
\* lines 299-302: the URLs in order of first appearance
DedupUrls(articles, urls) ==
    IF articles = <<>> THEN urls
    ELSE LET url == Head(articles).url IN
         DedupUrls(Tail(articles),
                   IF Truthy(url) /\ \A i \in 1..Len(urls) : urls[i] # url
                   THEN Append(urls, url) ELSE urls)

\* the last fetch_article_limit URLs instead of the first
CapUrlsFromEnd(urls, limit) ==
    IF Len(urls) <= limit THEN urls
    ELSE SubSeq(urls, Len(urls) - limit + 1, Len(urls))

\* urls[: fetch_article_limit], for a positive limit
CapUrls(urls, limit) ==
    IF Len(urls) <= limit THEN urls ELSE SubSeq(urls, 1, limit)

\* "\n".join of two texts
JoinTwo(a, b) ==
    CASE a = "body1" /\ b = "body1" -> "body1\nbody1"
      [] a = "body1" /\ b = "body2" -> "body1\nbody2"
      [] a = "body2" /\ b = "body1" -> "body2\nbody1"
      [] a = "body2" /\ b = "body2" -> "body2\nbody2"

\* lines 340-346: the non-blank text items of a tool result, joined
Collected(content) ==
    SelectSeq(content, LAMBDA item : item.type = "text" /\ item.text # "" /\ item.text # " ")

JoinCollected(collected) ==
    IF Len(collected) = 1 THEN collected[1].text
    ELSE JoinTwo(collected[1].text, collected[2].text)

HasContent(contents, url) == \E c \in contents : c.url = url
ContentOf(contents, url) == (CHOOSE c \in contents : c.url = url).text

\* contents[url] = text
PutContent(contents, url, text) ==
    {c \in contents : c.url # url} \cup {[url |-> url, text |-> text]}

\* the merge that keeps a content the article already had
MergeOneKeepOld(article, contents) ==
    IF Truthy(article.url) /\ HasContent(contents, article.url)
       /\ article.content = None
    THEN replace_content(article, ContentOf(contents, article.url))
    ELSE article

\* lines 352-359: a new sequence, each article replaced or kept
MergeOne(article, contents) ==
    IF Truthy(article.url) /\ HasContent(contents, article.url)
    THEN replace_content(article, ContentOf(contents, article.url))
    ELSE article

\* the merge that returns only the articles it enriched
MergeContentsDropping(articles, contents) ==
    LET kept == SelectSeq(articles,
                    LAMBDA a : Truthy(a.url) /\ HasContent(contents, a.url))
    IN  [i \in 1..Len(kept) |-> replace_content(kept[i], ContentOf(contents, kept[i].url))]

MergeContents(articles, contents) ==
    [i \in 1..Len(articles) |-> MergeOne(articles[i], contents)]

(***************************************************************************)
(* Values of the state                                                     *)
(***************************************************************************)
Exc(type, msg) == [type |-> type, msg |-> msg]
NoExc == Exc("", "")

MSG_MCP_ERROR == "MCP server reported an error"
MSG_NO_RESULTS == "DuckDuckGo search returned no parseable results."
MSG_NO_DATA == "No news data received from the MCP server."
MSG_NO_ARTICLES == "No articles parsed from the MCP server output."

FetchResult(raw_feed, extra_notes, articles) ==
    [raw_feed |-> raw_feed, extra_notes |-> extra_notes, articles |-> articles]
NoFetchResult == FetchResult(<<>>, <<>>, <<>>)

\* output_dir / f"{date}.md"
OutputPath(date) == [dir |-> "output_dir", stem |-> date, suffix |-> ".md"]
NoPath == [dir |-> "", stem |-> "", suffix |-> ""]

File(content) == [exists |-> TRUE, content |-> content]
NoFile == [exists |-> FALSE, content |-> <<>>]
OldContent == <<PlainLine("title", "earlier run")>>

NoResult ==
    [kind |-> "none", report |-> <<>>, summary |-> "", articles |-> <<>>,
     raw_feed |-> <<>>, extra_notes |-> <<>>, output_path |-> NoPath,
     written |-> FALSE, exc |-> NoExc]

GoodNewsDigest(report, summary, articles, raw_feed, extra_notes, output_path, written) ==
    [kind |-> "digest", report |-> report, summary |-> summary,
     articles |-> articles, raw_feed |-> raw_feed, extra_notes |-> extra_notes,
     output_path |-> output_path, written |-> written, exc |-> NoExc]

Raised(exc) == [NoResult EXCEPT !.kind = "error", !.exc = exc]

Frame0 ==
    [fetcher |-> "", now |-> "", write |-> FALSE, search_report |-> <<>>,
     articles |-> <<>>, urls |-> <<>>, next |-> 1, contents |-> {},
     enriched |-> <<>>, fetch_result |-> NoFetchResult,
     final_articles |-> <<>>, summary_body |-> "", report |-> <<>>,
     sessions |-> {}]

\* search_reply: how the search call ended (raised, error, empty: no raw
\* text, unparsable: text without articles, articles); fetch_session: how
\* the fetch session ended (failed_open, failed_call, failed_teardown,
\* closed; empty when none was opened); write_error: write_text raised;
\* fetched:
\* fetch() has returned a FetchResult to generate
Hist0 ==
    [search |-> 0, search_reply |-> "", fetch |-> <<>>, fetch_session |-> "",
     fetched |-> FALSE, summarize |-> 0, writes |-> 0, write_error |-> FALSE]

\* an entry of os.environ: unset, or set to a text given as its pieces
Unset == [set |-> FALSE, text |-> <<>>]
EnvValue(text) == [set |-> TRUE, text |-> text]

\* no function is called on its own
NoUnit == [op |-> "none"]

(***************************************************************************)
(* What the collaborators may answer                                       *)
(***************************************************************************)
SearchLines ==
    {Line("num", "A"), Line("url", "u1"), Line("url", ""),
     Line("summary", "s"), Line("other", "x")}

RECURSIVE SeqsUpTo(_, _)
SeqsUpTo(S, n) ==
    IF n = 0 THEN {<<>>}
    ELSE LET shorter == SeqsUpTo(S, n - 1)
         IN  shorter \cup {Append(s, x) : s \in shorter, x \in S}

TextItem(lines) == [type |-> "text", text |-> lines]
ImageItem == [type |-> "image", text |-> <<>>]

\* CallToolResult of the search tool: isError and the content items
SearchReplies ==
    {[isError |-> TRUE, content |-> <<TextItem(<<Line("other", "x")>>)>>],
     [isError |-> TRUE, content |-> <<TextItem(<<Line("url", "u1")>>)>>],
     [isError |-> FALSE, content |-> <<>>],
     [isError |-> FALSE, content |-> <<ImageItem>>],
     [isError |-> FALSE, content |-> <<TextItem(<<Blank>>)>>]}
    \cup {[isError |-> FALSE, content |-> <<TextItem(r)>>] :
              r \in SeqsUpTo(SearchLines, MaxLines) \ {<<>>}}

\* lines 273-278: the stripped non-blank text items, joined
SearchReport(content) ==
    Concat([i \in 1..Len(content) |->
                IF content[i].type = "text" THEN Strip(content[i].text) ELSE <<>>])

FetchText(t) == [type |-> "text", text |-> t]
FetchImage == [type |-> "image", text |-> ""]

\* what one call of the fetch tool may do: raise, be cancelled, or answer
FetchOutcomes ==
    {[kind |-> "raise", isError |-> FALSE, content |-> <<>>],
     [kind |-> "cancel", isError |-> FALSE, content |-> <<>>],
     [kind |-> "result", isError |-> TRUE, content |-> <<FetchText("body1")>>],
     [kind |-> "result", isError |-> FALSE, content |-> <<>>],
     [kind |-> "result", isError |-> FALSE, content |-> <<FetchText(" "), FetchImage>>],
     [kind |-> "result", isError |-> FALSE, content |-> <<FetchText("body1")>>],
     [kind |-> "result", isError |-> FALSE, content |-> <<FetchText("body2")>>],
     [kind |-> "result", isError |-> FALSE,
      content |-> <<FetchText("body1"), FetchText(""), FetchText("body2")>>]}

\* the text a fetch call delivered into contents, None when it delivered none
Delivered(outcome) ==
    IF outcome.kind = "result" /\ ~outcome.isError /\ Collected(outcome.content) # <<>>
    THEN JoinCollected(Collected(outcome.content))
    ELSE None

\* what a fetcher handed to the service (NewsFetcher protocol) may return
InjectedResults ==
    {FetchResult(<<>>, <<>>, <<>>),
     FetchResult(<<Line("other", "x")>>, <<>>, <<>>),
     FetchResult(<<Line("articleC", "1"), Line("title", "A"), Line("url", "u1")>>,
                 <<"note">>, <<>>),
     FetchResult(<<Line("other", "x")>>, <<>>,
                 <<Article("B", "src", None, "t0", None, "u2", "body1")>>)}

(***************************************************************************)
(* Steps of one invocation                                                 *)
(***************************************************************************)
Ended(q) == pc[q] \in {"done", "failed"}

\* generate raises exc: every session of the invocation is torn down by its
\* async with on the way out
Fail(p, exc) ==
    /\ pc' = [pc EXCEPT ![p] = "failed"]
    /\ result' = [result EXCEPT ![p] = Raised(exc)]

\* generate returns its digest (lines 493-501)
ReturnDigest(p, written) ==
    /\ pc' = [pc EXCEPT ![p] = "done"]
    /\ result' = [result EXCEPT ![p] =
           GoodNewsDigest(frame[p].report, frame[p].summary_body,
                          frame[p].final_articles, frame[p].fetch_result.raw_feed,
                          frame[p].fetch_result.extra_notes,
                          OutputPath(frame[p].now), written)]

\* generate(now, write) is called on a service built with or without a fetcher
Start(p, E) ==
    /\ pc[p] = "idle"
    /\ \E now \in E.dates, write \in E.writes, fetcher \in E.fetchers :
           frame' = [frame EXCEPT ![p] =
                        [Frame0 EXCEPT !.now = now, !.write = write, !.fetcher = fetcher]]
    /\ before' = [before EXCEPT ![p] = {q \in Procs : Ended(q)}]
    /\ pc' = [pc EXCEPT ![p] = "fetch"]
    /\ UNCHANGED <<environ, unit, config, hist, result, dirExists, files, initDisk>>

\* self._fetcher.fetch() of a fetcher passed to the constructor
InjectedFetch(p, E) ==
    /\ pc[p] = "fetch"
    /\ frame[p].fetcher = "injected"
    /\ \/ /\ Fail(p, Exc("Exception", "fetcher"))
          /\ UNCHANGED frame
          /\ UNCHANGED hist
       \/ /\ \E r \in E.injected :
                 frame' = [frame EXCEPT ![p].fetch_result = r]
          /\ hist' = [hist EXCEPT ![p].fetched = TRUE]
          /\ pc' = [pc EXCEPT ![p] = "got_fetch"]
          /\ UNCHANGED result
    /\ UNCHANGED <<environ, unit, config, dirExists, files, initDisk, before>>

\* _fetch_async lines 244-252: the search session is started and initialized
SearchOpen(p) ==
    /\ pc[p] = "fetch"
    /\ frame[p].fetcher = "GoodNewsFetcher"
    /\ \/ /\ Fail(p, Exc("Exception", "search session"))
          /\ UNCHANGED frame
       \/ /\ frame' = [frame EXCEPT ![p].sessions = @ \cup {"search"}]
          /\ pc' = [pc EXCEPT ![p] = "search"]
          /\ UNCHANGED result
    /\ UNCHANGED <<environ, unit, config, hist, dirExists, files, initDisk, before>>

\* the reply's isError left unread
SearchFailureIgnoresError(reply, articles) ==
    IF articles = <<>> THEN Exc("RuntimeError", MSG_NO_RESULTS) ELSE NoExc

\* lines 262-281: what _fetch_async raises on the search tool's reply
SearchFailure(reply, articles) ==
    IF reply.isError THEN Exc("RuntimeError", MSG_MCP_ERROR)
    ELSE IF articles = <<>> THEN Exc("RuntimeError", MSG_NO_RESULTS)
    ELSE NoExc

ReplyKind(reply) ==
    IF reply.isError THEN "error"
    ELSE IF SearchReport(reply.content) = <<>> THEN "empty"
    ELSE IF parse_ddg_results(SearchReport(reply.content)) = <<>> THEN "unparsable"
    ELSE "articles"

\* _fetch_async lines 254-281: the search call, its report and its articles
SearchCall(p, E) ==
    /\ pc[p] = "search"
    /\ \/ /\ Fail(p, Exc("Exception", "search call"))
          /\ frame' = [frame EXCEPT ![p].sessions = {}]
          /\ hist' = [hist EXCEPT ![p].search = @ + 1,
                                  ![p].search_reply = "raised"]
       \/ \E reply \in E.replies :
              LET search_report == SearchReport(reply.content)
                  articles == parse_ddg_results(search_report)
                  failure == SearchFailure(reply, articles)
              IN  /\ hist' = [hist EXCEPT ![p].search = @ + 1,
                                          ![p].search_reply = ReplyKind(reply)]
                  /\ IF failure # NoExc
                     THEN /\ Fail(p, failure)
                          /\ frame' = [frame EXCEPT ![p].sessions = {}]
                     ELSE /\ frame' = [frame EXCEPT ![p].search_report = search_report,
                                                    ![p].articles = articles]
                          /\ pc' = [pc EXCEPT ![p] = "enrich"]
                          /\ UNCHANGED result
    /\ UNCHANGED <<environ, unit, config, dirExists, files, initDisk, before>>

\* _enrich_articles_with_content returns; _fetch_async goes on (lines 283-290)
EnrichReturn(p, enriched, session) ==
    /\ frame' = [frame EXCEPT ![p].enriched = enriched,
                              ![p].sessions = @ \ {"fetch"}]
    /\ hist' = [hist EXCEPT ![p].fetch_session = session]
    /\ pc' = [pc EXCEPT ![p] = "compose"]
    /\ UNCHANGED result

\* the cancellation leaving the sessions as they are
CancelledLeaving(p) ==
    /\ Fail(p, Exc("CancelledError", ""))
    /\ UNCHANGED frame

\* asyncio.CancelledError is re-raised through every handler (lines 285-286,
\* 332-333, 347-348)
Cancelled(p) ==
    /\ Fail(p, Exc("CancelledError", ""))
    /\ frame' = [frame EXCEPT ![p].sessions = {}]

\* lines 296-311: the URLs to fetch, none when enrichment returns early
UrlsToFetch(articles, cfg) ==
    LET urls == DedupUrls(articles, <<>>)
    IN  IF articles = <<>> \/ urls = <<>> THEN <<>>
        ELSE IF cfg.fetch_article_limit <= 0 THEN <<>>
        ELSE IF ~cfg.fetch_server THEN <<>>
        ELSE CapUrls(urls, cfg.fetch_article_limit)

\* the handler of lines 349-350 falling through to the merge
OnSessionErrorPartial(articles, contents) == MergeContents(articles, contents)

\* lines 322-325 and 349-350: what enrichment returns when its session
\* raises while starting, initializing or tearing down
OnSessionError(articles, contents) == articles

\* _enrich_articles_with_content lines 296-325: the early returns, the URLs
\* to fetch, the fetch session
EnrichBegin(p) ==
    /\ pc[p] = "enrich"
    /\ LET articles == frame[p].articles
           urls == UrlsToFetch(articles, config)
       IN  IF urls = <<>> THEN EnrichReturn(p, articles, "")
           ELSE \/ EnrichReturn(p, OnSessionError(articles, {}), "failed_open")
                \/ /\ Cancelled(p)
                   /\ UNCHANGED hist
                \/ /\ frame' = [frame EXCEPT
                          ![p].urls = urls,
                          ![p].next = 1,
                          ![p].contents = {},
                          ![p].sessions = @ \cup {"fetch"}]
                   /\ pc' = [pc EXCEPT ![p] = "fetching"]
                   /\ UNCHANGED <<result, hist>>
    /\ UNCHANGED <<environ, unit, config, dirExists, files, initDisk, before>>

\* lines 326-346: one turn of the loop over urls.  A call that raises an
\* Exception or answers isError is passed over.  A CancelledError leaves the
\* loop (lines 332-333): it either goes on to the caller (lines 347-348), or
\* is the cancellation by which the session's task group ends the call when
\* the session has broken, and then the session's exit raises the session's
\* error, which lines 349-350 handle.
FetchUrl(p, E) ==
    /\ pc[p] = "fetching"
    /\ frame[p].next <= Len(frame[p].urls)
    /\ LET url == frame[p].urls[frame[p].next] IN
       \E outcome \in E.outcomes :
          LET called == Append(hist[p].fetch,
                               [url |-> url, max_length |-> config.fetch_max_chars,
                                text |-> Delivered(outcome)])
          IN  \/ /\ outcome.kind = "cancel"
                 /\ hist' = [hist EXCEPT ![p].fetch = called]
                 /\ Cancelled(p)
              \/ /\ outcome.kind = "cancel"
                 /\ hist' = [hist EXCEPT ![p].fetch = called,
                                         ![p].fetch_session = "failed_call"]
                 /\ frame' = [frame EXCEPT
                        ![p].enriched = OnSessionError(frame[p].articles,
                                                       frame[p].contents),
                        ![p].sessions = @ \ {"fetch"}]
                 /\ pc' = [pc EXCEPT ![p] = "compose"]
                 /\ UNCHANGED result
              \/ /\ outcome.kind # "cancel"
                 /\ hist' = [hist EXCEPT ![p].fetch = called]
                 /\ frame' = [frame EXCEPT
                        ![p].next = @ + 1,
                        ![p].contents =
                            IF Delivered(outcome) # None
                            THEN PutContent(@, url, Delivered(outcome)) ELSE @]
                 /\ UNCHANGED <<pc, result>>
    /\ UNCHANGED <<environ, unit, config, dirExists, files, initDisk, before>>

\* the loop is over: the session is torn down, then lines 347-359
FetchClose(p) ==
    /\ pc[p] = "fetching"
    /\ frame[p].next > Len(frame[p].urls)
    /\ \/ EnrichReturn(p, OnSessionError(frame[p].articles, frame[p].contents),
                       "failed_teardown")
       \/ EnrichReturn(p, MergeContents(frame[p].articles, frame[p].contents),
                       "closed")
    /\ UNCHANGED <<environ, unit, config, dirExists, files, initDisk, before>>

\* _fetch_async lines 290-291 and the search session's teardown
Compose(p) ==
    /\ pc[p] = "compose"
    /\ \/ /\ Fail(p, Exc("Exception", "search session"))
          /\ frame' = [frame EXCEPT ![p].sessions = {}]
          /\ UNCHANGED hist
       \/ /\ frame' = [frame EXCEPT
                 ![p].fetch_result =
                     FetchResult(compose_feed(frame[p].search_report, frame[p].enriched),
                                 <<>>, frame[p].enriched),
                 ![p].urls = <<>>, ![p].next = 1, ![p].contents = {},
                 ![p].sessions = {}]
          /\ hist' = [hist EXCEPT ![p].fetched = TRUE]
          /\ pc' = [pc EXCEPT ![p] = "got_fetch"]
          /\ UNCHANGED result
    /\ UNCHANGED <<environ, unit, config, dirExists, files, initDisk, before>>

\* line 474: fetch_result.articles or parse_articles(fetch_result.raw_feed)
ArticlesOf(fetch_result) ==
    IF fetch_result.articles # <<>> THEN fetch_result.articles
    ELSE parse_articles(fetch_result.raw_feed)

\* both checks left out
CheckFailureNever(fetch_result) == NoExc

\* the check of the articles left out
CheckFailureFeedOnly(fetch_result) ==
    IF fetch_result.raw_feed = <<>> THEN Exc("RuntimeError", MSG_NO_DATA) ELSE NoExc

\* both checks raising with one message
CheckFailureOneMessage(fetch_result) ==
    IF fetch_result.raw_feed = <<>> \/ ArticlesOf(fetch_result) = <<>>
    THEN Exc("RuntimeError", MSG_NO_DATA)
    ELSE NoExc

\* lines 471-476: what generate raises on the fetcher's result
CheckFailure(fetch_result) ==
    IF fetch_result.raw_feed = <<>> THEN Exc("RuntimeError", MSG_NO_DATA)
    ELSE IF ArticlesOf(fetch_result) = <<>> THEN Exc("RuntimeError", MSG_NO_ARTICLES)
    ELSE NoExc

\* generate lines 471-476
CheckFetch(p) ==
    /\ pc[p] = "got_fetch"
    /\ IF CheckFailure(frame[p].fetch_result) # NoExc
       THEN /\ Fail(p, CheckFailure(frame[p].fetch_result))
            /\ UNCHANGED frame
       ELSE /\ frame' = [frame EXCEPT
                    ![p].final_articles = ArticlesOf(frame[p].fetch_result)]
            /\ pc' = [pc EXCEPT ![p] = "summarize"]
            /\ UNCHANGED result
    /\ UNCHANGED <<environ, unit, config, hist, dirExists, files, initDisk, before>>

WriteRequestedAlways(write) == TRUE

\* line 485: if write
WriteRequested(write) == write

PathExistsNever(disk, date) == FALSE

\* line 487: output_path.exists()
PathExists(disk, date) == disk[date].exists

\* generate lines 478-485: the summarizer, build_report, the output path
Summarize(p, E) ==
    /\ pc[p] = "summarize"
    /\ hist' = [hist EXCEPT ![p].summarize = @ + 1]
    /\ \/ /\ Fail(p, Exc("Exception", "summarizer"))
          /\ UNCHANGED frame
       \/ \E summary_body \in E.summaries :
              LET report == build_report(summary_body, frame[p].final_articles,
                                         frame[p].fetch_result.extra_notes,
                                         frame[p].now)
                  done == [frame EXCEPT ![p].summary_body = summary_body,
                                        ![p].report = report]
              IN  /\ frame' = done
                  /\ IF WriteRequested(frame[p].write)
                     THEN /\ pc' = [pc EXCEPT ![p] = "mkdir"]
                          /\ UNCHANGED result
                     ELSE /\ pc' = [pc EXCEPT ![p] = "done"]
                          /\ result' = [result EXCEPT ![p] =
                                 GoodNewsDigest(report, summary_body,
                                     frame[p].final_articles,
                                     frame[p].fetch_result.raw_feed,
                                     frame[p].fetch_result.extra_notes,
                                     OutputPath(frame[p].now), FALSE)]
    /\ UNCHANGED <<environ, unit, config, dirExists, files, initDisk, before>>

\* line 486: output_dir.mkdir(parents=True, exist_ok=True)
Mkdir(p) ==
    /\ pc[p] = "mkdir"
    /\ \/ /\ Fail(p, Exc("OSError", "mkdir"))
          /\ UNCHANGED dirExists
       \/ /\ dirExists' = TRUE
          /\ pc' = [pc EXCEPT ![p] = "exists"]
          /\ UNCHANGED result
    /\ UNCHANGED <<environ, unit, config, frame, hist, files, initDisk, before>>

\* lines 487-488: output_path.exists()
Exists(p) ==
    /\ pc[p] = "exists"
    /\ IF PathExists(files, frame[p].now)
       THEN ReturnDigest(p, FALSE)
       ELSE /\ pc' = [pc EXCEPT ![p] = "write"]
            /\ UNCHANGED result
    /\ UNCHANGED <<environ, unit, config, frame, hist, dirExists, files, initDisk, before>>

\* lines 490-491: output_path.write_text(report); an OSError may leave the
\* file as it was or truncated
WriteText(p) ==
    /\ pc[p] = "write"
    /\ \/ /\ files' = [files EXCEPT ![frame[p].now] = File(frame[p].report)]
          /\ hist' = [hist EXCEPT ![p].writes = @ + 1]
          /\ ReturnDigest(p, TRUE)
       \/ /\ \E left \in {files[frame[p].now], File(<<>>)} :
                 files' = [files EXCEPT ![frame[p].now] = left]
          /\ Fail(p, Exc("OSError", "write_text"))
          /\ hist' = [hist EXCEPT ![p].write_error = TRUE]
    /\ UNCHANGED <<environ, unit, config, frame, dirExists, initDisk, before>>

(***************************************************************************)
(* Environments: the invocations that run and what the collaborators may   *)
(* answer them                                                             *)
(***************************************************************************)
Configs(limits, servers) ==
    [fetch_article_limit : limits, fetch_server : servers, fetch_max_chars : {4000}]

\* one invocation, every answer
FullEnv ==
    [procs |-> {"p1"}, dates |-> Dates, writes |-> BOOLEAN,
     fetchers |-> {"GoodNewsFetcher", "injected"},
     replies |-> SearchReplies, outcomes |-> FetchOutcomes,
     injected |-> InjectedResults, summaries |-> Summaries,
     configs |-> Configs({0, 1}, BOOLEAN),
     disks |-> [Dates -> {NoFile, File(OldContent)}]]

\* two invocations, overlapping or one after the other, few answers
TwoEnv ==
    [procs |-> Procs, dates |-> Dates, writes |-> BOOLEAN,
     fetchers |-> {"GoodNewsFetcher", "injected"},
     replies |-> {[isError |-> TRUE, content |-> <<TextItem(<<Line("url", "u1")>>)>>],
                  [isError |-> FALSE, content |-> <<>>],
                  [isError |-> FALSE,
                   content |-> <<TextItem(<<Line("other", "x")>>)>>],
                  [isError |-> FALSE,
                   content |-> <<TextItem(<<Line("url", "u1")>>)>>]},
     outcomes |-> {[kind |-> "raise", isError |-> FALSE, content |-> <<>>],
                   [kind |-> "result", isError |-> FALSE,
                    content |-> <<FetchText("body1")>>]},
     injected |-> {FetchResult(<<>>, <<>>, <<>>),
                   FetchResult(<<Line("other", "x")>>, <<>>, <<>>),
                   FetchResult(<<Line("other", "x")>>, <<>>,
                               <<Article("B", None, None, None, None, None, None)>>)},
     summaries |-> Summaries,
     configs |-> Configs({1}, {TRUE}),
     disks |-> {[d \in Dates |-> NoFile]}]

InitIn(E) ==
    /\ config \in E.configs
    /\ pc = [p \in Procs |-> "idle"]
    /\ frame = [p \in Procs |-> Frame0]
    /\ hist = [p \in Procs |-> Hist0]
    /\ result = [p \in Procs |-> NoResult]
    /\ files \in E.disks
    /\ dirExists \in BOOLEAN
    /\ (\E d \in Dates : files[d].exists) => dirExists
    /\ initDisk = [dir |-> dirExists, files |-> files]
    /\ before = [p \in Procs |-> {}]
    /\ environ = EnvValue(<<"sk-", "live">>)
    /\ unit = NoUnit

Run(E) ==
    \E p \in E.procs :
        \/ Start(p, E)
        \/ InjectedFetch(p, E)
        \/ SearchOpen(p)
        \/ SearchCall(p, E)
        \/ EnrichBegin(p)
        \/ FetchUrl(p, E)
        \/ FetchClose(p)
        \/ Compose(p)
        \/ CheckFetch(p)
        \/ Summarize(p, E)
        \/ Mkdir(p)
        \/ Exists(p)
        \/ WriteText(p)

\* one invocation of generate
Init == InitIn(FullEnv)
Next == Run(FullEnv)
Spec == Init /\ [][Next]_vars

\* _enrich_articles_with_content run on its own, on any article sequence
EnrichArticles ==
    {Article("A", None, None, None, None, None, None),
     Article("A", None, None, None, None, "u1", None),
     Article("B", "src", None, None, "s", "u1", "old"),
     Article("C", None, None, None, None, "u2", None),
     Article("D", None, None, None, None, "", "old")}

InitEnrich ==
    /\ config \in Configs(-1..MaxLimit, BOOLEAN)
    /\ pc = [p \in Procs |-> IF p = "p1" THEN "enrich" ELSE "idle"]
    /\ \E articles \in SeqsUpTo(EnrichArticles, MaxArticles) :
           frame = [p \in Procs |->
                       IF p = "p1" THEN [Frame0 EXCEPT !.articles = articles]
                       ELSE Frame0]
    /\ hist = [p \in Procs |-> Hist0]
    /\ result = [p \in Procs |-> NoResult]
    /\ files = [d \in Dates |-> NoFile]
    /\ dirExists = FALSE
    /\ initDisk = [dir |-> dirExists, files |-> files]
    /\ before = [p \in Procs |-> {}]
    /\ environ = EnvValue(<<"sk-", "live">>)
    /\ unit = NoUnit

NextEnrich ==
    \/ EnrichBegin("p1")
    \/ FetchUrl("p1", FullEnv)
    \/ FetchClose("p1")

SpecEnrich == InitEnrich /\ [][NextEnrich]_vars

\* two invocations of generate against one output directory
InitTwo == InitIn(TwoEnv)
NextTwo == Run(TwoEnv)
SpecTwo == InitTwo /\ [][NextTwo]_vars

(***************************************************************************)
(* Functions of the module called on their own                             *)
(***************************************************************************)
\* the variables of generate
genVars == <<config, pc, frame, hist, result, dirExists, files, initDisk, before>>

\* no invocation of generate is under way
NoRun ==
    /\ config \in Configs({1}, {TRUE})
    /\ pc = [p \in Procs |-> "idle"]
    /\ frame = [p \in Procs |-> Frame0]
    /\ hist = [p \in Procs |-> Hist0]
    /\ result = [p \in Procs |-> NoResult]
    /\ files = [d \in Dates |-> NoFile]
    /\ dirExists = FALSE
    /\ initDisk = [dir |-> dirExists, files |-> files]
    /\ before = [p \in Procs |-> {}]

\* what OPENAI_API_KEY may be: unset, empty, placeholders, real values
EnvValues ==
    {Unset, EnvValue(<<>>), EnvValue(<<"YOUR_">>), EnvValue(<<"YOUR_", "KEY">>),
     EnvValue(<<"sk-", "live">>), EnvValue(<<"sk-", "YOUR_">>), EnvValue(<<" ">>)}

MSG_MISSING == "Missing OpenAI API key. Set the OPENAI_API_KEY environment variable or .env entry."

\* the test of line 87 without its startswith("YOUR_")
EnsureEnvRaisesIfEmpty(value) ==
    \/ ~value.set
    \/ value.text = <<>>

\* ensure_env line 87: not value or value.startswith("YOUR_")
EnsureEnvRaises(value) ==
    \/ ~value.set
    \/ value.text = <<>>
    \/ value.text[1] = "YOUR_"

\* ensure_env line 91: return value
ensure_env(value) == value.text

\* the fallback text of line 379 (it says that no positive news was found today)
FALLBACK_SUMMARY == "no positive news found today"

\* the summary always called for
SummarizeFallbackNever(articles) == None

\* GoodNewsSummarizer.summarize lines 378-379: the text returned without a
\* client, None when the client is called for
SummarizeFallback(articles) ==
    IF articles = <<>> THEN FALLBACK_SUMMARY ELSE None

\* what chat.completions.create may answer
Completions == {"sumA", " sumA ", "sumB\n"}

InitSummarize ==
    /\ NoRun
    /\ environ \in EnvValues
    /\ \E articles \in SeqsUpTo(EnrichArticles, MaxArticles),
          extra_notes \in {<<>>, <<"note">>},
          client \in BOOLEAN :
           unit = [op |-> "summarize", articles |-> articles,
                   extra_notes |-> extra_notes, client |-> client,
                   pc |-> "call", out |-> None, exc |-> NoExc, api_key |-> <<>>,
                   env_reads |-> 0, clients_built |-> 0, llm_calls |-> 0]

\* summarize lines 378-381: the fallback, or the client to use
SummarizeEnter ==
    /\ unit.op = "summarize"
    /\ unit.pc = "call"
    /\ IF SummarizeFallback(unit.articles) # None
       THEN unit' = [unit EXCEPT !.out = SummarizeFallback(unit.articles),
                                 !.pc = "returned"]
       ELSE IF unit.client
       THEN unit' = [unit EXCEPT !.pc = "llm"]
       ELSE IF EnsureEnvRaises(environ)
       THEN unit' = [unit EXCEPT !.env_reads = @ + 1,
                                 !.exc = Exc("RuntimeError", MSG_MISSING),
                                 !.pc = "raised"]
       ELSE unit' = [unit EXCEPT !.env_reads = @ + 1,
                                 !.api_key = ensure_env(environ),
                                 !.clients_built = @ + 1,
                                 !.pc = "llm"]
    /\ UNCHANGED <<genVars, environ>>

\* summarize lines 430-444: the one call of the client, its answer stripped
SummarizeCreate ==
    /\ unit.op = "summarize"
    /\ unit.pc = "llm"
    /\ \/ unit' = [unit EXCEPT !.llm_calls = @ + 1,
                               !.exc = Exc("OpenAIError", ""),
                               !.pc = "raised"]
       \/ \E text \in Completions :
              unit' = [unit EXCEPT !.llm_calls = @ + 1,
                                   !.out = StripText(text),
                                   !.pc = "returned"]
    /\ UNCHANGED <<genVars, environ>>

NextSummarize == SummarizeEnter \/ SummarizeCreate

SpecSummarize == InitSummarize /\ [][NextSummarize]_vars

\* the lines a feed handed to parse_articles is made of
ParseLines ==
    {Line("articleC", "1"), Line("title", "A"), Line("title", "B "),
     Line("title", ""), Line("url", "u1"), Line("source", "S"),
     Line("author", "J"), Line("published", "t0"), Line("summary", "s"),
     Line("description", "d"), Line("fulltext", ""), Line("other", "---"),
     Line("blank", ""), Line("blank", " ")}

InitParse ==
    /\ NoRun
    /\ environ = Unset
    /\ \E raw_feed \in SeqsUpTo(ParseLines, MaxFeed) :
           unit = [op |-> "parse", raw_feed |-> raw_feed, pc |-> "call",
                   out |-> <<>>, exc |-> NoExc]

\* parse_articles(raw_feed) called and returning
ParseCall ==
    /\ unit.op = "parse"
    /\ unit.pc = "call"
    /\ unit' = [unit EXCEPT !.out = parse_articles(unit.raw_feed),
                            !.pc = "returned"]
    /\ UNCHANGED <<genVars, environ>>

NextParse == ParseCall

SpecParse == InitParse /\ [][NextParse]_vars

\* the articles, summary bodies and notes handed to build_report
ReportArticles ==
    {Article("A", None, None, None, None, None, None),
     Article("B", "src", None, "t0", "s", "u1", None),
     Article("C", None, None, None, None, "u2", "old"),
     Article("D", "src", None, None, None, "", None)}
ReportBodies == Completions \cup {"sumA", ""}
ReportNotes == {<<>>, <<"n1">>, <<"n1", "n2">>, <<"n2", "n1">>}

InitReport ==
    /\ NoRun
    /\ environ = Unset
    /\ \E summary_body \in ReportBodies, extra_notes \in ReportNotes,
          generated_at \in Dates,
          articles \in SeqsUpTo(ReportArticles, MaxArticles) :
           unit = [op |-> "report", summary_body |-> summary_body,
                   articles |-> articles, extra_notes |-> extra_notes,
                   generated_at |-> generated_at, pc |-> "call", out |-> <<>>]

\* build_report(summary_body, articles, extra_notes, generated_at) called
\* and returning
BuildCall ==
    /\ unit.op = "report"
    /\ unit.pc = "call"
    /\ unit' = [unit EXCEPT !.out = build_report(unit.summary_body, unit.articles,
                                                 unit.extra_notes,
                                                 unit.generated_at),
                            !.pc = "returned"]
    /\ UNCHANGED <<genVars, environ>>

NextReport == BuildCall

SpecReport == InitReport /\ [][NextReport]_vars

\* main: generate() with its defaults, on the built-in fetcher
MainEnv ==
    [procs |-> {"p1"}, dates |-> Dates, writes |-> {TRUE},
     fetchers |-> {"GoodNewsFetcher"},
     replies |-> SearchReplies, outcomes |-> FetchOutcomes,
     injected |-> {}, summaries |-> Summaries,
     configs |-> Configs({0, 1}, BOOLEAN),
     disks |-> [Dates -> {NoFile, File(OldContent)}]]

InitMain ==
    /\ config \in MainEnv.configs
    /\ pc = [p \in Procs |-> IF p = "p1" THEN "main" ELSE "idle"]
    /\ frame = [p \in Procs |-> Frame0]
    /\ hist = [p \in Procs |-> Hist0]
    /\ result = [p \in Procs |-> NoResult]
    /\ files \in MainEnv.disks
    /\ dirExists \in BOOLEAN
    /\ (\E d \in Dates : files[d].exists) => dirExists
    /\ initDisk = [dir |-> dirExists, files |-> files]
    /\ before = [p \in Procs |-> {}]
    /\ environ \in EnvValues
    /\ unit = [op |-> "main", api_key |-> <<>>, clients_built |-> 0]

\* main lines 543-555: load_config, ensure_env and the OpenAI client, then
\* the service; a RuntimeError is printed and main returns
MainStart(p) ==
    /\ pc[p] = "main"
    /\ IF EnsureEnvRaises(environ)
       THEN /\ pc' = [pc EXCEPT ![p] = "aborted"]
            /\ result' = [result EXCEPT ![p] =
                              Raised(Exc("RuntimeError", MSG_MISSING))]
            /\ UNCHANGED unit
       ELSE /\ pc' = [pc EXCEPT ![p] = "idle"]
            /\ unit' = [unit EXCEPT !.api_key = ensure_env(environ),
                                    !.clients_built = @ + 1]
            /\ UNCHANGED result
    /\ UNCHANGED <<config, frame, hist, dirExists, files, initDisk, before, environ>>

NextMain ==
    \/ MainStart("p1")
    \/ Start("p1", MainEnv)
    \/ SearchOpen("p1")
    \/ SearchCall("p1", MainEnv)
    \/ EnrichBegin("p1")
    \/ FetchUrl("p1", MainEnv)
    \/ FetchClose("p1")
    \/ Compose("p1")
    \/ CheckFetch("p1")
    \/ Summarize("p1", MainEnv)
    \/ Mkdir("p1")
    \/ Exists("p1")
    \/ WriteText("p1")

SpecMain == InitMain /\ [][NextMain]_vars

(***************************************************************************)
(* The comfort service: app.get_comfort_from_openai, which is also         *)
(* ComfortService.get_comfort and BibleComfortService.get_comfort, and the *)
(* POST /comfort endpoint.  A value of the reply's JSON object is a record *)
(* [t, s] of its JSON type and, for a string, its text; a short quote is   *)
(* a record of its type, its whitespace before and after, and the          *)
(* characters and words between.                                           *)
(***************************************************************************)
MAX_PASSAGES_CAP == 10
ZH_QUOTE_CHARS == 40
EN_QUOTE_WORDS == 20

JMissing == [t |-> "missing", s |-> ""]
JNull == [t |-> "null", s |-> ""]
JNum == [t |-> "num", s |-> ""]
JStr(s) == [t |-> "str", s |-> s]

Quote(t, lead, chars, words, trail) ==
    [t |-> t, lead |-> lead, chars |-> chars, words |-> words, trail |-> trail]
EmptyQuote == Quote("str", 0, 0, 0, 0)

\* len(short_quote) of a string as the reply gave it
QuoteLen(q) == q.lead + q.chars + q.trail

\* an element of the reply's passages: a JSON object with a ref and a
\* short_quote, or something that is no object
Passage(ref, short_quote) == [dict |-> TRUE, ref |-> ref, short_quote |-> short_quote]
NotAPassage == [dict |-> FALSE, ref |-> 0, short_quote |-> Quote("missing", 0, 0, 0, 0)]

PassageList(t, items) == [t |-> t, items |-> items]

Data(passages, devotional, prayer, disclaimer) ==
    [passages |-> passages, devotional |-> devotional, prayer |-> prayer,
     disclaimer |-> disclaimer]
NoData == Data(PassageList("missing", <<>>), JMissing, JMissing, JMissing)

ComfortQuery(language, max_passages) ==
    [language |-> language, max_passages |-> max_passages]

\* q.language.startswith("zh")
StartsWithZh(language) == language \in {"zh", "zh-CN"}

DISCLAIMER_ZH == "disclaimer zh"
DISCLAIMER_EN == "disclaimer en"

\* max(1, min(q.max_passages, 10)) without the cap of 10
ClampUncapped(max_passages) ==
    IF max_passages < 1 THEN 1 ELSE max_passages

\* max(1, min(q.max_passages, 10))
Clamp(max_passages) ==
    LET low == IF max_passages < MAX_PASSAGES_CAP THEN max_passages
               ELSE MAX_PASSAGES_CAP
    IN  IF low < 1 THEN 1 ELSE low

\* (data.get("passages") or [])[:max_passages]; a value that is true and no
\* list cannot be sliced or gives elements without get: None here
Sliced(passages, max_passages) ==
    IF passages.t \in {"missing", "null"} THEN <<>>
    ELSE SubSeq(passages.items, 1,
                IF Len(passages.items) < max_passages THEN Len(passages.items)
                ELSE max_passages)

\* the quote check that never blanks a quote
TooLongNever(language, q) == FALSE

\* lines 136-142: whether the quote, stripped, is over the limit
TooLong(language, q) ==
    /\ q.t = "str"
    /\ IF StartsWithZh(language) THEN q.chars > ZH_QUOTE_CHARS
       ELSE q.words > EN_QUOTE_WORDS

\* the body of the loop over the passages kept
ClipQuote(language, p) ==
    IF TooLong(language, p.short_quote)
    THEN [p EXCEPT !.short_quote = EmptyQuote]
    ELSE p

\* whether the loop raises on the element: p.get on what is no object, or
\* strip on a short_quote that is true and no string
LoopRaisesOn(p) == ~p.dict \/ p.short_quote.t = "num"

\* data.setdefault(key, "")
SetDefault(value) ==
    IF value.t = "missing" THEN JStr("") ELSE value

\* lines 149-154: the default disclaimer when data.get("disclaimer") is false
BackfillDisclaimer(language, value) ==
    IF value.t \in {"missing", "null"} \/ value = JStr("")
    THEN JStr(IF StartsWithZh(language) THEN DISCLAIMER_ZH ELSE DISCLAIMER_EN)
    ELSE value

\* lines 132-156 on the JSON object of the reply: the exception raised, or
\* the data returned
PostProcessRaises(q, data) ==
    \/ data.passages.t = "other"
    \/ \E i \in 1..Len(Sliced(data.passages, Clamp(q.max_passages))) :
           LoopRaisesOn(Sliced(data.passages, Clamp(q.max_passages))[i])

PostProcess(q, data) ==
    LET kept == Sliced(data.passages, Clamp(q.max_passages))
    IN  Data(PassageList("list",
                         [i \in 1..Len(kept) |-> ClipQuote(q.language, kept[i])]),
             SetDefault(data.devotional), SetDefault(data.prayer),
             BackfillDisclaimer(q.language, data.disclaimer))

\* the handlers that let every exception but the JSON one through
TranslateOnlyJson(type) ==
    IF type = "JSONDecodeError" THEN "ValueError" ELSE type

\* lines 158-161: the exception that leaves the function for one raised in
\* the try block
Translate(type) ==
    IF type = "JSONDecodeError" THEN "ValueError" ELSE "RuntimeError"

\* what the model may reply with
Quotes ==
    {Quote("missing", 0, 0, 0, 0), Quote("null", 0, 0, 0, 0),
     Quote("num", 0, 0, 0, 0), EmptyQuote, Quote("str", 1, 0, 0, 0),
     Quote("str", 0, 40, 1, 0), Quote("str", 1, 40, 1, 0),
     Quote("str", 0, 41, 1, 0), Quote("str", 0, 39, 20, 0),
     Quote("str", 0, 41, 21, 1)}
Items == {Passage(0, q) : q \in Quotes} \cup {NotAPassage}

\* a reply of n passages, short and over-long quotes in turn
LongList(n) ==
    [i \in 1..n |->
        Passage(i, IF i % 2 = 1 THEN Quote("str", 0, 40, 1, 0)
                   ELSE Quote("str", 0, 41, 21, 0))]

ReplyPassages ==
    {PassageList("missing", <<>>), PassageList("null", <<>>),
     PassageList("other", <<>>)}
    \cup {PassageList("list", s) : s \in SeqsUpTo(Items, MaxListed)}
    \cup {PassageList("list", LongList(n)) : n \in 2..MaxReply}

ReplyObjects ==
    {Data(p, d, pr, di) :
        p \in ReplyPassages,
        d \in {JMissing, JNull, JStr(""), JStr("dev")},
        pr \in {JMissing, JStr("pray")},
        di \in {JMissing, JNull, JStr(""), JStr("disc"), JNum}}

Queries == {ComfortQuery(l, m) : l \in {"zh", "zh-CN", "en"}, m \in {0, 1, 2, 11}}

\* not os.environ.get("OPENAI_API_KEY")
KeyMissing(value) == ~value.set \/ value.text = <<>>

InitComfort ==
    /\ NoRun
    /\ environ \in {Unset, EnvValue(<<>>), EnvValue(<<"sk-", "live">>)}
    /\ \E q \in Queries, client \in BOOLEAN, entry \in {"endpoint", "direct"} :
           unit = [op |-> "comfort", entry |-> entry, q |-> q, client |-> client,
                   pc |-> IF entry = "endpoint" THEN "request" ELSE "service",
                   cause |-> "", reply |-> NoData, out |-> NoData,
                   exc |-> NoExc, status |-> 0, branch |-> "", llm_calls |-> 0]

\* comfort lines 166-170: the key is looked for, then the service is called
ComfortRequest ==
    /\ unit.op = "comfort"
    /\ unit.pc = "request"
    /\ IF KeyMissing(environ)
       THEN unit' = [unit EXCEPT !.status = 500, !.branch = "nokey",
                                 !.pc = "responded"]
       ELSE unit' = [unit EXCEPT !.pc = "service"]
    /\ UNCHANGED <<genVars, environ>>

\* an exception raised in the try block of get_comfort_from_openai
ComfortRaise(cause, type, calls) ==
    unit' = [unit EXCEPT !.cause = cause, !.exc = Exc(Translate(type), cause),
                         !.llm_calls = @ + calls, !.pc = "raised"]

\* get_comfort_from_openai lines 114-161
ComfortCall ==
    /\ unit.op = "comfort"
    /\ unit.pc = "service"
    /\ IF ~unit.client
       THEN ComfortRaise("noclient", "RuntimeError", 0)
       ELSE \/ ComfortRaise("api", "APIError", 1)
            \/ ComfortRaise("empty", "ValueError", 1)
            \/ ComfortRaise("invalid", "JSONDecodeError", 1)
            \/ ComfortRaise("nonobject", "AttributeError", 1)
            \/ \E data \in ReplyObjects :
                   /\ PostProcessRaises(unit.q, data)
                   /\ unit' = [unit EXCEPT !.cause = "postprocess",
                                           !.reply = data,
                                           !.exc = Exc(Translate("AttributeError"),
                                                       "postprocess"),
                                           !.llm_calls = @ + 1, !.pc = "raised"]
            \/ \E data \in ReplyObjects :
                   /\ ~PostProcessRaises(unit.q, data)
                   /\ unit' = [unit EXCEPT !.reply = data,
                                           !.out = PostProcess(unit.q, data),
                                           !.llm_calls = @ + 1, !.pc = "returned"]
    /\ UNCHANGED <<genVars, environ>>

\* comfort lines 171-176: the result, or the HTTPException for what was raised
ComfortRespond ==
    /\ unit.op = "comfort"
    /\ unit.entry = "endpoint"
    /\ unit.pc \in {"returned", "raised"}
    /\ IF unit.pc = "returned"
       THEN unit' = [unit EXCEPT !.status = 200, !.branch = "ok", !.pc = "responded"]
       ELSE IF unit.exc.type \in {"ValueError", "RuntimeError"}
       THEN unit' = [unit EXCEPT !.status = 502, !.branch = "service",
                                 !.pc = "responded"]
       ELSE unit' = [unit EXCEPT !.status = 500, !.branch = "unexpected",
                                 !.pc = "responded"]
    /\ UNCHANGED <<genVars, environ>>

NextComfort == ComfortRequest \/ ComfortCall \/ ComfortRespond

SpecComfort == InitComfort /\ [][NextComfort]_vars

(***************************************************************************)
(* POST /tts: app.tts and app.generate_tts_audio.  The temporary file of   *)
(* the request is on disk from NamedTemporaryFile(delete=False) until an   *)
(* os.remove.                                                              *)
(***************************************************************************)
TtsTexts == {"", " ", "hi", " hi "}
TtsFormats == {None, "mp3", "wav", "WAV", "ogg"}
TtsVoices == {None, "nova"}

TTSRequest(text, voice, format) == [text |-> text, voice |-> voice, format |-> format]

\* not text or not text.strip()
TtsTextMissing(text) == text \in {"", " "}

\* select_voice
select_voice(override) == IF override # None THEN override ELSE "alloy"

\* lines 212-216: the format in lower case, mp3 for what is neither mp3 nor
\* wav, and the media type of it
TtsFormat(fmt) == IF fmt \in {"wav", "WAV"} THEN "wav" ELSE "mp3"
MediaType(fmt) == IF TtsFormat(fmt) = "mp3" THEN "audio/mpeg" ELSE "audio/wav"

InitTts ==
    /\ NoRun
    /\ environ \in {Unset, EnvValue(<<>>), EnvValue(<<"sk-", "live">>)}
    /\ \E text \in TtsTexts, voice \in TtsVoices, format \in TtsFormats,
          client \in BOOLEAN :
           unit = [op |-> "tts", req |-> TTSRequest(text, voice, format),
                   client |-> client, pc |-> "request",
                   tmp_exists |-> FALSE, tmp_created |-> FALSE, tmp_audio |-> FALSE,
                   bound |-> FALSE, voice |-> "", media_type |-> "",
                   api_calls |-> 0, exc |-> NoExc, status |-> 0, streamed |-> FALSE]

\* tts lines 236-237: the key is looked for
TtsRequest ==
    /\ unit.op = "tts"
    /\ unit.pc = "request"
    /\ IF KeyMissing(environ)
       THEN unit' = [unit EXCEPT !.status = 500, !.pc = "responded"]
       ELSE unit' = [unit EXCEPT !.pc = "validate"]
    /\ UNCHANGED <<genVars, environ>>

\* generate_tts_audio lines 202-218: the text, the voice and the format
TtsValidate ==
    /\ unit.op = "tts"
    /\ unit.pc = "validate"
    /\ IF TtsTextMissing(unit.req.text)
       THEN unit' = [unit EXCEPT !.exc = Exc("ValueError", "Missing text for TTS"),
                                 !.pc = "except"]
       ELSE unit' = [unit EXCEPT !.voice = select_voice(unit.req.voice),
                                 !.media_type = MediaType(unit.req.format),
                                 !.pc = "allocate"]
    /\ UNCHANGED <<genVars, environ>>

\* generate_tts_audio lines 220-221: the temporary file is made and kept
TtsAllocate ==
    /\ unit.op = "tts"
    /\ unit.pc = "allocate"
    /\ unit' = [unit EXCEPT !.tmp_exists = TRUE, !.tmp_created = TRUE,
                            !.pc = "synthesize"]
    /\ UNCHANGED <<genVars, environ>>

\* generate_tts_audio lines 224-231: the speech is asked for and streamed to
\* the file; without a client the attribute access on None raises
TtsSynthesize ==
    /\ unit.op = "tts"
    /\ unit.pc = "synthesize"
    /\ IF ~unit.client
       THEN unit' = [unit EXCEPT !.exc = Exc("AttributeError", "audio"),
                                 !.pc = "except"]
       ELSE \/ unit' = [unit EXCEPT !.api_calls = @ + 1,
                                    !.exc = Exc("OpenAIError", "create"),
                                    !.pc = "except"]
            \/ unit' = [unit EXCEPT !.api_calls = @ + 1,
                                    !.exc = Exc("OSError", "stream_to_file"),
                                    !.pc = "except"]
            \/ unit' = [unit EXCEPT !.api_calls = @ + 1, !.tmp_audio = TRUE,
                                    !.bound = TRUE, !.status = 200,
                                    !.pc = "streaming"]
    /\ UNCHANGED <<genVars, environ>>

\* tts line 264: 'temp_path' in locals() and os.path.exists(temp_path);
\* temp_path is a local of tts once generate_tts_audio has returned
TtsCleans == unit.bound /\ unit.tmp_exists

\* tts lines 261-268: the file is removed when tts has its path, and 502
TtsExcept ==
    /\ unit.op = "tts"
    /\ unit.pc = "except"
    /\ unit' = [unit EXCEPT !.tmp_exists = IF TtsCleans THEN FALSE ELSE @,
                            !.status = 502, !.pc = "responded"]
    /\ UNCHANGED <<genVars, environ>>

\* file_iterator lines 248-258: the file is read to its end and removed, or
\* the client goes away and the generator is closed at its yield
TtsStream ==
    /\ unit.op = "tts"
    /\ unit.pc = "streaming"
    /\ \/ unit' = [unit EXCEPT !.streamed = TRUE, !.tmp_exists = FALSE,
                               !.pc = "responded"]
       \/ unit' = [unit EXCEPT !.pc = "disconnected"]
    /\ UNCHANGED <<genVars, environ>>

NextTts ==
    TtsRequest \/ TtsValidate \/ TtsAllocate \/ TtsSynthesize \/ TtsExcept \/ TtsStream

SpecTts == InitTts /\ [][NextTts]_vars

(***************************************************************************)
(* scripts/generate_devotional.py: main, run again and again, one run      *)
(* after the other, and generate_devotional_with_ai.  The prompt is the    *)
(* sequence of the texts put into its template.  A file of daily/ is a     *)
(* record of whether it is there and of the body written into it.          *)
(***************************************************************************)
\* the first scriptures of a theme, MaxScriptures of them at most
FirstFew(refs) ==
    SubSeq(refs, 1, IF Len(refs) < MaxScriptures THEN Len(refs) ELSE MaxScriptures)

FOCUS_TIME == "wisdom to manage time and to make wise judgments in the age of artificial intelligence"
FOCUS_FAMILY == "protection and blessing over personal and family health and happiness"
FOCUS_SON == "my younger son to become obedient and dependable"

ThemeEntry(scriptures, prayer_focus) ==
    [scriptures |-> FirstFew(scriptures), prayer_focus |-> prayer_focus]

THEME_CONFIG ==
    [theme \in {"Morning Seeking and Quietness", "AI/Work Anxiety and Trust",
                "Time Management and Wisdom", "Gratitude and Hope",
                "Family Responsibility and Care",
                "Children's Education/Prayer for Children",
                "Emotional Self-Control and Patience", "Seek for Wisdom from God",
                "Seek for God's Blessing"} |->
        CASE theme = "Morning Seeking and Quietness" ->
                 ThemeEntry(<<"Psalm 63:1-8", "Psalm 62:1-2,5-8", "Psalm 5:1-3",
                              "Mark 1:35", "Lamentations 3:22-26">>, "")
          [] theme = "AI/Work Anxiety and Trust" ->
                 ThemeEntry(<<"Psalm 46", "Psalm 37:3-7", "Matthew 6:25-34",
                              "Philippians 4:6-8", "1 Peter 5:6-7", "Proverbs 16:3",
                              "Psalm 55:22">>, "")
          [] theme = "Time Management and Wisdom" ->
                 ThemeEntry(<<"Psalm 90:12", "Proverbs 3:5-6", "James 1:5",
                              "Ephesians 5:15-17", "Colossians 4:5", "Proverbs 16:9",
                              "Philippians 1:9-10">>, FOCUS_TIME)
          [] theme = "Gratitude and Hope" ->
                 ThemeEntry(<<"Psalm 103:1-5", "Isaiah 40:28-31",
                              "1 Thessalonians 5:16-18", "Romans 15:13",
                              "Lamentations 3:21-23">>, "")
          [] theme = "Family Responsibility and Care" ->
                 ThemeEntry(<<"Psalm 91", "Psalm 121", "Psalm 23", "Joshua 24:15",
                              "1 Timothy 5:8", "Proverbs 22:6", "1 Peter 4:10">>,
                            FOCUS_FAMILY)
          [] theme = "Children's Education/Prayer for Children" ->
                 ThemeEntry(<<"Psalm 121", "Proverbs 3:5-6", "Deuteronomy 6:6-7",
                              "Isaiah 54:13", "Psalm 127:3-5", "Ephesians 6:1-4">>,
                            FOCUS_SON)
          [] theme = "Emotional Self-Control and Patience" ->
                 ThemeEntry(<<"Ephesians 4:26-32", "Proverbs 15:1", "Proverbs 16:32",
                              "James 1:19-20", "Colossians 3:12-14",
                              "Galatians 5:22-23", "Proverbs 29:11">>, "")
          [] theme = "Seek for Wisdom from God" ->
                 ThemeEntry(<<"James 1:5", "Proverbs 2:1-6", "Proverbs 3:5-6",
                              "Ephesians 1:17", "Colossians 1:9">>, "")
          [] OTHER ->
                 ThemeEntry(<<"Numbers 6:24-26", "Psalm 67:1-2", "Ephesians 1:3",
                              "Deuteronomy 28:2", "Psalm 115:12-15">>, "")]

Themes == DOMAIN THEME_CONFIG

\* pick_scriptures: what random.sample may give, one or two of the theme's
\* scriptures
pick_scriptures(theme) ==
    LET candidates == THEME_CONFIG[theme].scriptures
        at == 1..Len(candidates)
    IN  IF candidates = <<>> THEN {<<"Psalm 23">>}
        ELSE {<<candidates[i]>> : i \in at}
             \cup {<<candidates[ij[1]], candidates[ij[2]]>> :
                      ij \in {xy \in at \X at : xy[1] # xy[2]}}

\* the focus of every theme put into every prompt
FocusInstructionsOfAll(theme) ==
    <<"Prayer section must explicitly include this theme-specific focus:",
      FOCUS_TIME, FOCUS_FAMILY, FOCUS_SON>>

\* lines 179-185: the instructions for the prayer focus of the theme
FocusInstructions(theme) ==
    IF THEME_CONFIG[theme].prayer_focus # ""
    THEN <<"Prayer section must explicitly include this theme-specific focus:",
           THEME_CONFIG[theme].prayer_focus>>
    ELSE <<>>

\* lines 187-203: the user prompt
UserPrompt(theme, refs, date) ==
    <<"Generate a daily devotional", "Today's Date:", date, "Theme:", theme,
      "Scripture References:">> \o refs
    \o <<"Application: connect it to the theme of", theme, "Prayer">>
    \o FocusInstructions(theme)
    \o <<"Structure the output clearly with Markdown headings.">>

Contains(prompt, text) == \E i \in 1..Len(prompt) : prompt[i] = text

\* the body of a day's file: what the model wrote, or the error text of
\* line 219 with the theme and the scriptures
DevBody(kind, theme, refs) == [kind |-> kind, theme |-> theme, refs |-> refs]
\* an error text that names neither the theme nor the scriptures
ErrorBodyBare(theme, refs) == DevBody("error", "", <<>>)

\* line 219: the error text, with the theme and the scriptures
ErrorBody(theme, refs) == DevBody("error", theme, refs)
OldBody == DevBody("old", "", <<>>)
NoBody == DevBody("none", "", <<>>)

DailyFile(exists, body) == [exists |-> exists, body |-> body]

PLACEHOLDER_KEY == <<"YOUR_", "OPENAI_API_KEY">>

\* the test of the key that only looks for a key that is not set
DevKeyMissingIfUnset(value) == ~value.set \/ value.text = <<>>

\* main line 229
DevKeyMissing(value) ==
    ~value.set \/ value.text = <<>> \/ value.text = PLACEHOLDER_KEY

NoRunLocals ==
    [date |-> "", theme |-> "", refs |-> <<>>, existed |-> FALSE,
     llm_calls |-> 0, wrote |-> FALSE, outcome |-> ""]

InitDevotional ==
    /\ NoRun
    /\ environ \in {Unset, EnvValue(<<>>), EnvValue(PLACEHOLDER_KEY),
                    EnvValue(<<"sk-", "live">>)}
    /\ \E dir \in BOOLEAN, daily \in [Dates -> {DailyFile(FALSE, NoBody),
                                               DailyFile(TRUE, OldBody)}] :
           /\ (\E d \in Dates : daily[d].exists) => dir
           /\ unit = [op |-> "devotional", pc |-> "idle", runs |-> 0,
                      dir |-> dir, daily |-> daily,
                      writes |-> [d \in Dates |-> 0],
                      run |-> NoRunLocals, prompt |-> <<>>, body |-> NoBody]

\* main lines 224-247: the time, the key, the theme and the scriptures, the
\* directory; a run without a key returns before the directory is made, a
\* run for a day that has its file returns once it is made
DevStart ==
    /\ unit.op = "devotional"
    /\ unit.pc = "idle"
    /\ unit.runs < MaxRuns
    /\ \E date \in Dates :
           LET began == [NoRunLocals EXCEPT !.date = date,
                                            !.existed = unit.daily[date].exists]
           IN  IF DevKeyMissing(environ)
               THEN unit' = [unit EXCEPT !.runs = @ + 1,
                                         !.run = [began EXCEPT !.outcome = "nokey"],
                                         !.prompt = <<>>, !.body = NoBody]
               ELSE IF unit.daily[date].exists
               THEN unit' = [unit EXCEPT !.runs = @ + 1, !.dir = TRUE,
                                         !.run = [began EXCEPT !.outcome = "skipped"],
                                         !.prompt = <<>>, !.body = NoBody]
               ELSE \E theme \in Themes : \E refs \in pick_scriptures(theme) :
                        unit' = [unit EXCEPT !.pc = "generate", !.dir = TRUE,
                                             !.run = [began EXCEPT !.theme = theme,
                                                                   !.refs = refs],
                                             !.prompt = <<>>, !.body = NoBody]
    /\ UNCHANGED <<genVars, environ>>

\* generate_devotional_with_ai lines 175-219: the prompt, the one request,
\* and its text or the error text
DevGenerate ==
    /\ unit.op = "devotional"
    /\ unit.pc = "generate"
    /\ \E ok \in BOOLEAN :
           unit' = [unit EXCEPT
                       !.prompt = UserPrompt(unit.run.theme, unit.run.refs,
                                             unit.run.date),
                       !.run.llm_calls = @ + 1,
                       !.body = IF ok THEN DevBody("devotional", unit.run.theme,
                                                   unit.run.refs)
                                ELSE ErrorBody(unit.run.theme, unit.run.refs),
                       !.pc = "write"]
    /\ UNCHANGED <<genVars, environ>>

\* main lines 250-258: the day's file is written and main returns
DevWrite ==
    /\ unit.op = "devotional"
    /\ unit.pc = "write"
    /\ unit' = [unit EXCEPT !.daily[unit.run.date] = DailyFile(TRUE, unit.body),
                            !.writes[unit.run.date] = @ + 1,
                            !.run = [@ EXCEPT !.theme = "", !.refs = <<>>,
                                              !.wrote = TRUE, !.outcome = "wrote"],
                            !.prompt = <<>>, !.body = NoBody,
                            !.runs = @ + 1, !.pc = "idle"]
    /\ UNCHANGED <<genVars, environ>>

NextDevotional == DevStart \/ DevGenerate \/ DevWrite

SpecDevotional == InitDevotional /\ [][NextDevotional]_vars

(***************************************************************************)
(* _compose_feed and then parse_articles on the feed it made               *)
(***************************************************************************)
RoundTripArticles ==
    {Article("A", None, None, None, None, "u1", None),
     Article("B", None, None, None, "s", "u2", None),
     Article("C", None, None, None, "d", "u1", "body1"),
     Article("D", None, None, None, None, None, "body2")}
RoundTripReports == {<<>>, <<Line("other", "x")>>, <<Line("other", "x"), Line("blank", "")>>}

InitRoundTrip ==
    /\ NoRun
    /\ environ = Unset
    /\ \E search_report \in RoundTripReports,
          articles \in SeqsUpTo(RoundTripArticles, MaxArticles) :
           unit = [op |-> "roundtrip", search_report |-> search_report,
                   articles |-> articles, pc |-> "call", raw_feed |-> <<>>,
                   out |-> <<>>]

\* _compose_feed(search_report, articles), and parse_articles on its result
RoundTripCall ==
    /\ unit.op = "roundtrip"
    /\ unit.pc = "call"
    /\ LET raw_feed == compose_feed(unit.search_report, unit.articles)
       IN  unit' = [unit EXCEPT !.raw_feed = raw_feed,
                                !.out = parse_articles(raw_feed),
                                !.pc = "returned"]
    /\ UNCHANGED <<genVars, environ>>

NextRoundTrip == RoundTripCall

SpecRoundTrip == InitRoundTrip /\ [][NextRoundTrip]_vars

(***************************************************************************)
(* Two runs for one day                                                    *)
(***************************************************************************)
Wrote(p) == result[p].kind = "digest" /\ result[p].written

\* q began after p had returned, and both ran with write=true for one date
\* and returned a digest
SameDayPair(p, q) ==
    /\ p # q
    /\ p \in before[q]
    /\ result[p].kind = "digest" /\ result[q].kind = "digest"
    /\ frame[p].write /\ frame[q].write
    /\ frame[p].now = frame[q].now

\* C1: generate run twice with write=true for one date, the day's file not
\* there before: the first run writes the file and reports written=true, the
\* second reports written=false, the file holds what the first run wrote,
\* and no other file has appeared.
C1_SecondRunKeepsFile ==
    \A p, q \in Procs :
        (SameDayPair(p, q) /\ ~initDisk.files[frame[p].now].exists) =>
            /\ result[p].written
            /\ ~result[q].written
            /\ files[frame[p].now] = File(result[p].report)
            /\ \A d \in Dates \ {frame[p].now} : files[d] = initDisk.files[d]

\* the second run built another report than the first and the file kept the first
C1_Witness ==
    \E p, q \in Procs :
        /\ SameDayPair(p, q)
        /\ result[q].report # result[p].report
        /\ ~result[q].written
        /\ files[frame[p].now] = File(result[p].report)

\* C2: whatever the interleaving of the invocations for one date, the day's
\* file is written by at most one of them and at most one reports
\* written=true.
C2_AtMostOneWriter ==
    \A d \in Dates :
        /\ Cardinality({p \in Procs : frame[p].now = d /\ hist[p].writes > 0}) <= 1
        /\ Cardinality({p \in Procs : frame[p].now = d /\ Wrote(p)}) <= 1

(***************************************************************************)
(* Failures of the search step and of the parse step                       *)
(***************************************************************************)
DiskUntouched == dirExists = initDisk.dir /\ files = initDisk.files

\* the search tool reported an error or gave no raw text
SearchGaveNothing(p) == hist[p].search_reply \in {"error", "empty"}

\* a fetcher returned a result whose raw feed is empty
FeedEmpty(p) == hist[p].fetched /\ frame[p].fetch_result.raw_feed = <<>>

\* raw text without articles: from the search tool, or in a fetcher's result
SearchUnparsable(p) == hist[p].search_reply = "unparsable"
FeedUnparsable(p) ==
    /\ hist[p].fetched
    /\ frame[p].fetch_result.raw_feed # <<>>
    /\ frame[p].fetch_result.articles = <<>>
    /\ parse_articles(frame[p].fetch_result.raw_feed) = <<>>

\* the run has not got past the check of the fetcher's result
StoppedAtCheck(p) ==
    /\ pc[p] \in {"got_fetch", "failed"}
    /\ hist[p].summarize = 0
    /\ DiskUntouched

NoDataFailure(p) ==
    pc[p] = "failed" /\ (SearchGaveNothing(p) \/ FeedEmpty(p))
NoArticlesFailure(p) ==
    pc[p] = "failed" /\ (SearchUnparsable(p) \/ FeedUnparsable(p))

C6_NoWriteNoEffect ==
    \A p \in Procs :
        (pc[p] # "idle" /\ ~frame[p].write) =>
            /\ DiskUntouched
            /\ pc[p] = "done" =>
                  /\ result[p].kind = "digest"
                  /\ ~result[p].written
                  /\ result[p].output_path = OutputPath(frame[p].now)

\* a digest was returned with write=false where neither the directory nor
\* the file was there
C6_Witness ==
    \E p \in Procs :
        /\ pc[p] = "done"
        /\ ~frame[p].write
        /\ ~dirExists
        /\ ~files[frame[p].now].exists

(***************************************************************************)
(* Enrichment                                                              *)
(***************************************************************************)
\* _enrich_articles_with_content has returned to _fetch_async
Enriched(p) == pc[p] = "compose"

SessionFailed(p) ==
    hist[p].fetch_session \in {"failed_open", "failed_call", "failed_teardown"}

\* the fetch calls of the run that delivered a text
Successes(p) ==
    {i \in 1..Len(hist[p].fetch) : hist[p].fetch[i].text # None}

FetchedOk(p, url) == \E i \in Successes(p) : hist[p].fetch[i].url = url
FetchedText(p, url) ==
    hist[p].fetch[CHOOSE i \in Successes(p) : hist[p].fetch[i].url = url].text

\* C7: the sequence enrichment returns is as long as its input, and the
\* article at each position is the input article of that position, its
\* content possibly replaced, whichever fetches succeed or fail.
C7_SameLengthAndOrder ==
    \A p \in Procs :
        Enriched(p) =>
            /\ Len(frame[p].enriched) = Len(frame[p].articles)
            /\ \A i \in 1..Len(frame[p].articles) :
                   frame[p].enriched[i] =
                       replace_content(frame[p].articles[i],
                                       frame[p].enriched[i].content)

\* three articles, one fetch delivering and one not: the first and the last
\* article kept, the one between enriched
C7_Witness ==
    \E p \in Procs :
        /\ Enriched(p)
        /\ Len(frame[p].articles) = 3
        /\ Successes(p) # {}
        /\ Successes(p) # 1..Len(hist[p].fetch)
        /\ frame[p].enriched[1] = frame[p].articles[1]
        /\ frame[p].enriched[2] # frame[p].articles[2]
        /\ frame[p].enriched[3] = frame[p].articles[3]

\* C8: a run of enrichment calls fetch at most fetch_article_limit times,
\* never twice for one URL, whether the URL is in several articles or its
\* fetch failed, and not at all when the limit is 0 or less.
C8_FetchesBounded ==
    \A p \in Procs :
        LET calls == hist[p].fetch IN
        /\ config.fetch_article_limit <= 0 => calls = <<>>
        /\ config.fetch_article_limit > 0 => Len(calls) <= config.fetch_article_limit
        /\ \A i, j \in 1..Len(calls) : calls[i].url = calls[j].url => i = j

\* enrichment over: a URL of two articles whose one fetch failed, and a URL
\* left unfetched by the limit
C8_Witness ==
    \E p \in Procs :
        /\ Enriched(p)
        /\ Len(hist[p].fetch) = config.fetch_article_limit
        /\ \E i, j \in 1..Len(frame[p].articles) :
               /\ i # j
               /\ frame[p].articles[i].url = frame[p].articles[j].url
               /\ \E k \in 1..Len(hist[p].fetch) :
                      /\ hist[p].fetch[k].url = frame[p].articles[i].url
                      /\ hist[p].fetch[k].text = None
        /\ \E i \in 1..Len(frame[p].articles) :
               /\ Truthy(frame[p].articles[i].url)
               /\ \A k \in 1..Len(hist[p].fetch) :
                      hist[p].fetch[k].url # frame[p].articles[i].url

\* every article of a fetched URL has the fetched text, every other article
\* is its input
MergedAsFetched(p) ==
    \A i \in 1..Len(frame[p].articles) :
        LET article == frame[p].articles[i] IN
        frame[p].enriched[i] =
            IF Truthy(article.url) /\ FetchedOk(p, article.url)
            THEN replace_content(article, FetchedText(p, article.url))
            ELSE article

\* enrichment does not change the articles it was given
InputKept(p) ==
    (pc[p] \in {"enrich", "fetching"}) => frame'[p].articles = frame[p].articles

\* C9 as stated: after enrichment every article whose URL was fetched with
\* success has the fetched text as its content, every other article is
\* returned equal to its input, and the input articles are not changed.
C9_FetchedAlwaysMerged ==
    [][\A p \in Procs :
          /\ InputKept(p)
          /\ Enriched(p)' =>
                /\ Len(frame'[p].enriched) = Len(frame'[p].articles)
                /\ MergedAsFetched(p)']_vars

\* C9 amended: as stated when the fetch session ends without failure; when
\* the session fails as a whole, after whatever fetches succeeded, every
\* article is returned equal to its input.
C9_MergedUnlessSessionFailed ==
    [][\A p \in Procs :
          /\ InputKept(p)
          /\ Enriched(p)' =>
                /\ Len(frame'[p].enriched) = Len(frame'[p].articles)
                /\ IF SessionFailed(p)'
                   THEN frame'[p].enriched = frame'[p].articles
                   ELSE MergedAsFetched(p)']_vars

\* the session closed; one fetched text went to two articles of one URL, one
\* of which had a content before, and an article without URL stayed as it was
C9_Witness ==
    \E p \in Procs :
        /\ Enriched(p)
        /\ hist[p].fetch_session = "closed"
        /\ \E i, j \in 1..Len(frame[p].articles) :
               /\ i # j
               /\ frame[p].articles[i].url = frame[p].articles[j].url
               /\ FetchedOk(p, frame[p].articles[i].url)
               /\ frame[p].articles[i].content # None
               /\ frame[p].enriched[i].content = frame[p].enriched[j].content
               /\ frame[p].enriched[i] # frame[p].articles[i]
        /\ \E i \in 1..Len(frame[p].articles) :
               /\ ~Truthy(frame[p].articles[i].url)
               /\ frame[p].enriched[i] = frame[p].articles[i]

\* the failures of the steps that follow enrichment
LaterFailures ==
    {Exc("Exception", "search session"), Exc("Exception", "summarizer"),
     Exc("OSError", "mkdir"), Exc("OSError", "write_text"),
     Exc("RuntimeError", MSG_NO_DATA), Exc("RuntimeError", MSG_NO_ARTICLES)}

\* C10: when the fetch session fails to start, to initialize, in a call or
\* to tear down, enrichment yields the articles it was given, none of them
\* enriched, the run goes on with them, and a run that reached enrichment
\* fails only by a later step or by being cancelled.
C10_EnrichmentNeverFails ==
    \A p \in Procs :
        /\ (SessionFailed(p) /\ pc[p] # "failed") =>
              /\ frame[p].enriched = frame[p].articles
              /\ hist[p].fetched => frame[p].fetch_result.articles = frame[p].articles
              /\ pc[p] = "done" => result[p].articles = frame[p].articles
        /\ (hist[p].search_reply = "articles" /\ pc[p] = "failed") =>
              \/ result[p].exc \in LaterFailures
              \/ result[p].exc.type = "CancelledError"

\* a digest was returned by a run whose fetch session failed in its teardown
\* after a fetch had delivered a text
C10_Witness ==
    \E p \in Procs :
        /\ pc[p] = "done"
        /\ hist[p].fetch_session = "failed_teardown"
        /\ Successes(p) # {}
        /\ hist[p].summarize = 1
        /\ result[p].articles = frame[p].articles

(***************************************************************************)
(* The write of the day's file, and the order of the steps                 *)
(***************************************************************************)
\* C11: when write_text fails with a filesystem error, generate still
\* hands the digest it built (report, summary, articles) to its caller.
C11_DigestDespiteWriteError ==
    \A p \in Procs :
        hist[p].write_error =>
            /\ result[p].kind = "digest"
            /\ result[p].report = frame[p].report
            /\ result[p].summary = frame[p].summary_body
            /\ result[p].articles = frame[p].final_articles

\* the run has reached the persist step
Persisting(p) ==
    \/ pc[p] \in {"mkdir", "exists", "write"}
    \/ hist[p].writes > 0
    \/ hist[p].write_error

UnusableKeys ==
    {Unset, EnvValue(<<>>), EnvValue(<<"YOUR_">>), EnvValue(<<"YOUR_", "KEY">>)}

Parsed == unit.pc = "returned"

\* the blocks of the feed, and those parse_articles makes an Article of
FeedBlocks == SplitBlocks(unit.raw_feed, 1, <<>>)
KeptBlocks ==
    SelectSeq(FeedBlocks,
              LAMBDA b : /\ ~IsBlankText(b)
                         /\ \/ FirstLabel(b, "title") # None
                            \/ FirstLabel(b, "url") # None)

HasLabel(block, k) == \E i \in 1..Len(block) : block[i].k = k

\* the text on the first line of the block that carries the label
FirstLineOf(block, k) ==
    StripText(block[CHOOSE i \in 1..Len(block) :
                        /\ block[i].k = k
                        /\ \A j \in 1..(i - 1) : block[j].k # k].v)

\* C16: parse_articles returns, for every text; it returns the empty
\* sequence for an empty or whitespace-only text, and a text none of whose
\* lines is a Title or URL line gives no Article: what cannot be read is
\* dropped, never more Articles than blocks.
C16_BlankFeedEmpty ==
    Parsed =>
        /\ unit.exc = NoExc
        /\ IsBlankText(unit.raw_feed) => unit.out = <<>>
        /\ (\A i \in 1..Len(unit.raw_feed) : unit.raw_feed[i].k \notin {"title", "url"})
              => unit.out = <<>>
        /\ Len(unit.out) <= Len(FeedBlocks)

\* a feed of a segment that cannot be read and a segment with a title
C16_Witness ==
    /\ Parsed
    /\ unit.raw_feed = <<Line("other", "---"), Line("articleC", "1"),
                         Line("title", "A")>>
    /\ Len(FeedBlocks) = 2
    /\ Len(unit.out) = 1

\* the feeds made of "Article N:" segments of labelled lines
SegmentFeed ==
    /\ unit.raw_feed # <<>>
    /\ unit.raw_feed[1].k = "articleC"
    /\ \A i \in 1..Len(unit.raw_feed) :
           unit.raw_feed[i].k \in
               {"articleC", "title", "url", "source", "author", "published",
                "summary", "description"}

\* the segments with a Title or a URL line
ReadableSegments ==
    SelectSeq(FeedBlocks, LAMBDA b : HasLabel(b, "title") \/ HasLabel(b, "url"))

\* C17: for a feed of "Article N:" segments of labelled lines,
\* parse_articles returns one Article per segment that has a Title or URL
\* line, in the order of the segments, and every label of a segment is in
\* its field with the text of the first line that carries the label.
C17_LabelsVerbatim ==
    (Parsed /\ SegmentFeed) =>
        /\ Len(unit.out) = Len(ReadableSegments)
        /\ \A n \in 1..Len(ReadableSegments) :
               LET seg == ReadableSegments[n]
                   a == unit.out[n]
               IN  /\ HasLabel(seg, "title") => a.title = FirstLineOf(seg, "title")
                   /\ HasLabel(seg, "url") => a.url = FirstLineOf(seg, "url")
                   /\ HasLabel(seg, "source") => a.source = FirstLineOf(seg, "source")
                   /\ HasLabel(seg, "author") => a.author = FirstLineOf(seg, "author")
                   /\ HasLabel(seg, "published") =>
                          a.published_at = FirstLineOf(seg, "published")
                   /\ HasLabel(seg, "summary") =>
                          a.description = FirstLineOf(seg, "summary")
                   /\ (~HasLabel(seg, "summary") /\ HasLabel(seg, "description")) =>
                          a.description = FirstLineOf(seg, "description")

\* C18 as stated: in every Article of parse_articles a field whose label is
\* not in the segment is None, never an empty text or a placeholder.
C18_MissingIsNone ==
    Parsed =>
        \A n \in 1..Len(KeptBlocks) :
            LET b == KeptBlocks[n]
                a == unit.out[n]
            IN  /\ ~HasLabel(b, "title") => a.title = None
                /\ ~HasLabel(b, "url") => a.url = None
                /\ ~HasLabel(b, "source") => a.source = None
                /\ ~HasLabel(b, "author") => a.author = None
                /\ ~HasLabel(b, "published") => a.published_at = None
                /\ (~HasLabel(b, "summary") /\ ~HasLabel(b, "description")) =>
                       a.description = None
                /\ ~HasLabel(b, "fulltext") => a.content = None

\* C18 amended: every field but the title whose label is not in the segment
\* is None, never an empty text or a placeholder; a title that is not there
\* is given as the placeholder title.  A segment of only a Title line and a
\* URL line gives an Article of just that title and that URL.
C18_MissingIsNoneButTitle ==
    Parsed =>
        /\ Len(unit.out) = Len(KeptBlocks)
        /\ \A n \in 1..Len(KeptBlocks) :
            LET b == KeptBlocks[n]
                a == unit.out[n]
            IN  /\ ~HasLabel(b, "title") => a.title = UNTITLED
                /\ ~HasLabel(b, "url") => a.url = None
                /\ ~HasLabel(b, "source") => a.source = None
                /\ ~HasLabel(b, "author") => a.author = None
                /\ ~HasLabel(b, "published") => a.published_at = None
                /\ (~HasLabel(b, "summary") /\ ~HasLabel(b, "description")) =>
                       a.description = None
                /\ ~HasLabel(b, "fulltext") => a.content = None
                /\ (\E t \in {"A", "B "} :
                       b \in {<<Line("title", t), Line("url", "u1")>>,
                              <<Line("title", t), Line("url", "u1"), Blank>>}) =>
                       a = Article(FirstLineOf(b, "title"), None, None, None,
                                   None, "u1", None)

\* the feed "Article 1:", "Title: A", "URL: u1" was parsed
C18_Witness ==
    /\ Parsed
    /\ unit.raw_feed = <<Line("articleC", "1"), Line("title", "A"),
                         Line("url", "u1")>>
    /\ unit.out = <<Article("A", None, None, None, None, "u1", None)>>

(***************************************************************************)
(* build_report                                                            *)
(***************************************************************************)
Built == unit.op = "report" /\ unit.pc = "returned"

OfKind(doc, k) == SelectSeq(doc, LAMBDA l : l.k = k)

\* the position of the one line of the kind
PositionOf(doc, k) == CHOOSE i \in 1..Len(doc) : doc[i].k = k

\* C19: with no article the sources section of build_report is its header
\* and the placeholder line, and no entry; with n >= 1 articles it has one
\* entry per article, numbered 1..n in the order given, right under the
\* header, each a link exactly when the article has a URL, and no
\* placeholder line.
C19_SourcesSection ==
    Built =>
        LET doc == unit.out
            n == Len(unit.articles)
            h == PositionOf(doc, "sources")
        IN  /\ Len(OfKind(doc, "sources")) = 1
            /\ n = 0 =>
                  /\ OfKind(doc, "entry") = <<>>
                  /\ Len(OfKind(doc, "placeholder")) = 1
                  /\ doc[h + 1].k = "placeholder"
            /\ n >= 1 =>
                  /\ OfKind(doc, "placeholder") = <<>>
                  /\ Len(OfKind(doc, "entry")) = n
                  /\ \A i \in 1..n :
                         /\ doc[h + i].k = "entry"
                         /\ doc[h + i].n = i
                         /\ doc[h + i].v = unit.articles[i].title
                         /\ doc[h + i].url =
                                (IF unit.articles[i].url \in {None, ""} THEN ""
                                 ELSE unit.articles[i].url)

\* both cases of C19 were built: three articles, the second with a URL and
\* the first without
C19_Witness ==
    /\ Built
    /\ Len(unit.articles) = 3
    /\ unit.articles[1].url = None
    /\ unit.articles[2].url = "u1"
    /\ unit.articles[3].url = ""
    /\ Len(OfKind(unit.out, "entry")) = 3

\* the lines of the document that are not empty separators
Body(doc) == SelectSeq(doc, LAMBDA l : l.k # "empty")

\* C20: the document of build_report has its sections in one order: the
\* title line of the date, the summary body, the sources header with the
\* entries or the placeholder, the extra notes as given and in their order,
\* and last the generation timestamp line.
C20_SectionOrder ==
    Built =>
        LET body == Body(unit.out)
            n == Len(unit.articles)
            m == Len(unit.extra_notes)
            k == IF n = 0 THEN 1 ELSE n
        IN  /\ Len(body) = 3 + k + m + 1
            /\ unit.out[1] = PlainLine("title", unit.generated_at)
            /\ body[1].k = "title"
            /\ body[2] = PlainLine("summary", StripText(unit.summary_body))
            /\ body[3].k = "sources"
            /\ \A i \in 1..k : body[3 + i].k \in {"entry", "placeholder"}
            /\ \A j \in 1..m : body[3 + k + j] = PlainLine("note", unit.extra_notes[j])
            /\ body[Len(body)] = PlainLine("generated", unit.generated_at)
            /\ unit.out[Len(unit.out)].k = "empty"

\* a document with two entries and two notes was built
C20_Witness ==
    /\ Built
    /\ Len(unit.articles) = 2
    /\ unit.extra_notes = <<"n2", "n1">>
    /\ unit.summary_body = " sumA "
    /\ OfKind(unit.out, "note") = <<PlainLine("note", "n2"), PlainLine("note", "n1")>>

(***************************************************************************)
(* The comfort service                                                     *)
(***************************************************************************)
ComfortReturned ==
    unit.op = "comfort" /\ unit.cause = "" /\ unit.pc \in {"returned", "responded"}
        /\ unit.llm_calls = 1

C22_FieldsAreStrings ==
    ComfortReturned =>
        /\ unit.out.devotional.t = "str"
        /\ unit.out.prayer.t = "str"
        /\ unit.reply.devotional.t = "missing" => unit.out.devotional = JStr("")
        /\ unit.reply.prayer.t = "missing" => unit.out.prayer = JStr("")
        /\ unit.out.disclaimer.t = "str"
        /\ unit.out.disclaimer.s # ""
        /\ (unit.reply.disclaimer.t = "missing" \/ unit.reply.disclaimer = JStr("")) =>
               unit.out.disclaimer.s \in {DISCLAIMER_ZH, DISCLAIMER_EN}

\* the i-th passage of the reply and of the result
ReplyQuote(i) == unit.reply.passages.items[i].short_quote
OutQuote(i) == unit.out.passages.items[i].short_quote

\* C25 as stated: every short_quote returned is empty or has at most 40
\* characters (language zh...) or at most 20 words (otherwise).
C25_QuoteWithinLimit ==
    ComfortReturned =>
        \A i \in 1..Len(unit.out.passages.items) :
            OutQuote(i).t = "str" =>
                \/ QuoteLen(OutQuote(i)) = 0
                \/ IF unit.q.language \in {"zh", "zh-CN"}
                   THEN QuoteLen(OutQuote(i)) <= 40
                   ELSE OutQuote(i).words <= 20

\* C25 amended: every short_quote returned, stripped of the whitespace
\* around it, is empty or has at most 40 characters (language zh...) or at
\* most 20 words (otherwise); a quote over the limit is replaced by the
\* empty string and any other is returned as the reply gave it.
C25_StrippedQuoteWithinLimit ==
    ComfortReturned =>
        \A i \in 1..Len(unit.out.passages.items) :
            LET over == /\ ReplyQuote(i).t = "str"
                        /\ IF unit.q.language \in {"zh", "zh-CN"}
                           THEN ReplyQuote(i).chars > 40
                           ELSE ReplyQuote(i).words > 20
            IN  /\ over => OutQuote(i) = EmptyQuote
                /\ ~over => OutQuote(i) = ReplyQuote(i)
                /\ OutQuote(i).t = "str" =>
                       IF unit.q.language \in {"zh", "zh-CN"}
                       THEN OutQuote(i).chars <= 40
                       ELSE OutQuote(i).words <= 20

\* a reply of two passages came back with the first quote kept and the
\* second, over the limit, blanked
C25_Witness ==
    /\ ComfortReturned
    /\ Len(unit.out.passages.items) = 2
    /\ ReplyQuote(1).chars = 40 /\ OutQuote(1) = ReplyQuote(1)
    /\ ReplyQuote(2).words = 21 /\ OutQuote(2) = EmptyQuote

\* C26: what get_comfort_from_openai raises is a ValueError when the reply
\* is no valid JSON and a RuntimeError for every other failure; POST
\* /comfort answers 502 for each and never takes its branch for unexpected
\* errors; without OPENAI_API_KEY it answers 500 and the model is not called.
C26_FailuresAre502 ==
    unit.op = "comfort" =>
        /\ unit.pc = "raised" \/ unit.cause # "" =>
               /\ unit.exc.type \in {"ValueError", "RuntimeError"}
               /\ unit.exc.type = "ValueError" <=> unit.cause = "invalid"
        /\ (unit.pc = "responded" /\ unit.cause # "") =>
               unit.status = 502 /\ unit.branch = "service"
        /\ unit.branch # "unexpected"
        /\ (unit.entry = "endpoint" /\ KeyMissing(environ)) =>
               /\ unit.llm_calls = 0
               /\ unit.pc = "responded" => unit.status = 500 /\ unit.branch = "nokey"

\* the endpoint answered 502 for a reply without content
C26_Witness ==
    /\ unit.op = "comfort"
    /\ unit.pc = "responded"
    /\ unit.cause = "empty"
    /\ unit.exc.type = "RuntimeError"
    /\ unit.status = 502

(***************************************************************************)
(* POST /tts                                                               *)
(***************************************************************************)
\* C27: no temporary file is left by a request to /tts: after the 502 of a
\* request that failed once the file was made the file is gone, after a
\* body streamed to its end the file is gone, and a text that is empty or
\* blank is refused with no file made and no call of the API.
C27_NoTempFileLeft ==
    unit.op = "tts" =>
        /\ (unit.pc = "responded" /\ unit.status = 502) => ~unit.tmp_exists
        /\ (unit.pc = "responded" /\ unit.streamed) => ~unit.tmp_exists
        /\ TtsTextMissing(unit.req.text) => ~unit.tmp_created /\ unit.api_calls = 0

(***************************************************************************)
(* The devotional script                                                   *)
(***************************************************************************)
PromptBuilt == unit.op = "devotional" /\ unit.pc = "write"

\* the themes that have a prayer focus, and the focus of each
FocusOf ==
    {<<"Time Management and Wisdom", FOCUS_TIME>>,
     <<"Family Responsibility and Care", FOCUS_FAMILY>>,
     <<"Children's Education/Prayer for Children", FOCUS_SON>>}

\* C23: the user prompt of generate_devotional_with_ai has the prayer focus
\* of its theme exactly when the theme has one, and never the prayer focus
\* of another theme.
C23_FocusOfThemeOnly ==
    PromptBuilt =>
        /\ \A tf \in FocusOf :
               Contains(unit.prompt, tf[2]) <=> unit.run.theme = tf[1]
        /\ Contains(unit.prompt, unit.run.theme)
        /\ \A t \in Themes : THEME_CONFIG[t].prayer_focus # "" =>
               \E tf \in FocusOf : tf[1] = t

\* the prompt for the theme of the children was built
C23_Witness ==
    /\ PromptBuilt
    /\ unit.run.theme = "Children's Education/Prayer for Children"
    /\ Contains(unit.prompt, FOCUS_SON)
    /\ ~Contains(unit.prompt, FOCUS_TIME)

C29_ErrorTextPersists ==
    [][/\ unit.pc = "generate" =>
              /\ unit'.pc = "write"
              /\ unit'.body.kind \in {"devotional", "error"}
              /\ unit'.body.theme = unit.run.theme
              /\ unit'.body.refs = unit.run.refs
       /\ unit.pc = "write" =>
              unit'.daily[unit.run.date] = DailyFile(TRUE, unit.body)
       /\ \A d \in Dates :
              (unit.daily[d].exists /\ unit.daily[d].body.kind = "error") =>
                  /\ unit'.daily[d] = unit.daily[d]
                  /\ unit'.run.date = d =>
                         unit'.run.outcome = "skipped" /\ unit'.run.llm_calls = 0]_vars

\* a run found the error text of an earlier run as the file of its day
C29_Witness ==
    /\ unit.op = "devotional"
    /\ unit.runs = 2
    /\ unit.run.outcome = "skipped"
    /\ unit.daily[unit.run.date].body.kind = "error"
    /\ unit.daily[unit.run.date].body.theme = "Gratitude and Hope"
    /\ unit.daily[unit.run.date].body.refs = <<"Psalm 103:1-5">>

(***************************************************************************)
(* The order of the fetch calls                                            *)
(***************************************************************************)
\* the URLs of the articles handed to enrichment
DistinctUrls == {frame["p1"].articles[i].url : i \in 1..Len(frame["p1"].articles)}
                    \ {None, ""}

\* where a URL is first in the articles
FirstAt(url) ==
    CHOOSE i \in 1..Len(frame["p1"].articles) :
        /\ frame["p1"].articles[i].url = url
        /\ \A j \in 1..(i - 1) : frame["p1"].articles[j].url # url

\* the fetch loop ran to its end
LoopEnded == hist["p1"].fetch_session \in {"closed", "failed_teardown"}

C30_FeedRoundTrips ==
    (unit.op = "roundtrip" /\ unit.pc = "returned" /\ unit.articles # <<>>) =>
        /\ Len(unit.out) = Len(unit.articles)
        /\ \A i \in 1..Len(unit.articles) :
               /\ unit.out[i].title = unit.articles[i].title
               /\ unit.out[i].url = unit.articles[i].url
               /\ unit.out[i].description = unit.articles[i].description
               /\ unit.out[i].content = unit.articles[i].content

====
